---------------------------- MODULE Spec2Model ----------------------------
(***************************************************************************)
(* A model of the wfirma_sdk client core (src/wfirma_sdk/client.py):       *)
(* client construction and the choice of the auth mode, the assembly of    *)
(* the query parameters and headers of a request, and the decoding and     *)
(* status classification of the response; and of the resource methods      *)
(* (src/wfirma_sdk/resources) with the encoders of their request bodies,   *)
(* called by threads that wait at the transport for the response; and of   *)
(* the transport client that the calls share: its headers, whose names     *)
(* compare without case, its cookie jar, and close().                      *)
(*                                                                         *)
(* Python values are tagged records [t, v]: t is the Python type and v a   *)
(* sequence (empty for None).  A str is a sequence of indivisible chunks,  *)
(* so that concatenation, prefix tests and whitespace trimming are         *)
(* computed and not assumed.  A dict is the sequence of its items in       *)
(* insertion order.                                                        *)
(***************************************************************************)
EXTENDS Naturals, Sequences, FiniteSets, TLC

VARIABLES
    ctor,      \* the last constructor call: its arguments and how it ended
    client,    \* the WFirmaAPIClient object the caller holds, or NoClient
    call,      \* the last _request call: where it is, request, response, outcome
    prev,      \* the response and outcome of the _request call before it
    nSent,     \* requests handed to the transport by the _request calls so far
    threads    \* per caller thread: its resource call, request, response, outcome

vars == <<ctor, client, call, prev, nSent, threads>>

----------------------------------------------------------------------------
(* Bounds of the model *)

\* _request calls made on one client
MaxCalls == 2

\* child elements under the root of a generated response document
MaxSections == 2

\* children of one element in a response of SpecTree
MaxKids == 3

\* entries of a field mapping given to a resource method
MaxFields == 2

----------------------------------------------------------------------------
(* Python values *)

PyNone == [t |-> "none", v |-> <<>>]

PyStr(chunks) == [t |-> "str", v |-> chunks]

PyDict(items) == [t |-> "dict", v |-> items]

PyList(items) == [t |-> "list", v |-> items]

\* the int n
PyInt(n) == [t |-> "int", v |-> <<n>>]

\* one str of a single chunk
S(c) == PyStr(<<c>>)

Item(k, x) == [k |-> k, val |-> x]

\* bool(x) for None, str, dict, list and int
Truthy(x) == IF x.t = "int" THEN x.v[1] # 0 ELSE x.t # "none" /\ Len(x.v) > 0

\* str(x) of a scalar: a str is itself, an int its decimal digits, None the
\* word None
str(x) ==
    CASE x.t = "str" -> x
      [] x.t = "int" -> PyStr(<<ToString(x.v[1])>>)
      [] x.t = "none" -> PyStr(<<"None">>)

isinstance(x, ty) == x.t = ty

\* The characters that stand alone as a chunk: the white space and the
\* other control characters of ASCII, the quotes, the backslash, the
\* delete character and <, > and &.  Every other chunk is a run of ASCII
\* characters that holds none of these.  NUL, the grave accent and the
\* characters beyond ASCII are in no chunk.
VT == ""

FF == "\f"

Separators == {"", "", "", ""}

\* the control characters 0x01 to 0x08 and 0x0e to 0x1b
Controls ==
    {"", "", "", "", "", "", "", "", "", "", "",
     "", "", "", "", "", "", "", "", "", "", ""}

Quotes == {"'", "\""}

Backslash == "\\"

\* bytes.strip(): the ASCII whitespace
Whitespace == {" ", "\t", "\n", "\r", VT, FF}

\* str.strip(): the characters for which str.isspace() holds (those beyond
\* ASCII are in no chunk)
StrWhitespace == Whitespace \cup Separators

\* the characters that stand alone as a chunk
Alone ==
    \* the delete character, 0x7f
    LET DEL == ""
    IN
    StrWhitespace \cup Controls \cup Quotes \cup {Backslash, DEL, "<", ">", "&"}

RECURSIVE LStrip(_)
LStrip(s) ==
    IF s # <<>> /\ Head(s) \in StrWhitespace THEN LStrip(Tail(s)) ELSE s

RECURSIVE RStrip(_)
RStrip(s) ==
    IF s # <<>> /\ s[Len(s)] \in StrWhitespace
    THEN RStrip(SubSeq(s, 1, Len(s) - 1))
    ELSE s

Strip(s) == RStrip(LStrip(s))

\* str.startswith
startswith(s, prefix) ==
    Len(s) >= Len(prefix) /\ SubSeq(s, 1, Len(prefix)) = prefix

----------------------------------------------------------------------------
(* dict operations, on the sequence of items *)

Keys(d) == {d.v[i].k : i \in 1..Len(d.v)}

Has(d, k) == k \in Keys(d)

\* d[k] for a key that is present
Get(d, k) == d.v[CHOOSE i \in 1..Len(d.v) : d.v[i].k = k].val

\* d.get(k): None for a missing key
DictGet(d, k) == IF Has(d, k) THEN d.v[CHOOSE i \in 1..Len(d.v) : d.v[i].k = k].val
                 ELSE PyNone

\* d[k] = x: replaces the value in place or appends the item
DictSet(d, k, x) ==
    IF Has(d, k)
    THEN PyDict([i \in 1..Len(d.v) |-> IF d.v[i].k = k THEN Item(k, x) ELSE d.v[i]])
    ELSE PyDict(Append(d.v, Item(k, x)))

\* d.update(e) / {**d, **e}
RECURSIVE UpdateItems(_, _)
UpdateItems(d, items) ==
    IF items = <<>> THEN d
    ELSE UpdateItems(DictSet(d, Head(items).k, Head(items).val), Tail(items))

DictUpdate(d, e) == UpdateItems(d, e.v)

\* d.setdefault(k, x): keeps the value of a key already present
SetDefault(d, k, x) == IF Has(d, k) THEN d ELSE PyDict(Append(d.v, Item(k, x)))

----------------------------------------------------------------------------
(* The headers of the transport client and of a request: httpx.Headers, the *)
(* sequence of the headers in order, whose names compare without case.      *)

\* str.lower() of a header name: every capital letter of ASCII becomes its
\* small letter, and every other character stays.  The names that the SDK
\* and the transport write themselves are lowered at sight; any other name
\* is lowered letter by letter.
RECURSIVE lower(_)
lower(name) ==
    LET capitals == "ABCDEFGHIJKLMNOPQRSTUVWXYZ"
        small == "abcdefghijklmnopqrstuvwxyz"
        c == Head(name)
        at == {i \in 1..26 : SubSeq(capitals, i, i) = c}
    IN  CASE name \in {"", "authorization", "accesskey", "secretkey", "appkey",
                       "accept", "content-type", "cookie", "accept-encoding",
                       "connection", "user-agent"} -> name
          [] name = "Authorization" -> "authorization"
          [] name = "accessKey" -> "accesskey"
          [] name = "secretKey" -> "secretkey"
          [] name = "appKey" -> "appkey"
          [] name = "Accept" -> "accept"
          [] name = "Content-Type" -> "content-type"
          [] name = "Cookie" -> "cookie"
          [] OTHER -> (IF at = {} THEN c ELSE LET i == CHOOSE i \in at : TRUE
                                             IN  SubSeq(small, i, i))
                      \o lower(Tail(name))

\* the places of the headers named k
HeaderIndexes(h, k) == {i \in 1..Len(h.v) : lower(h.v[i].k) = lower(k)}

\* k in headers
HeadersContains(h, k) == HeaderIndexes(h, k) # {}

\* headers[k] for a name that is present: its values, joined by ", "
RECURSIVE JoinValues(_, _, _)
JoinValues(h, k, i) ==
    IF i > Len(h.v) THEN <<>>
    ELSE IF lower(h.v[i].k) # lower(k) THEN JoinValues(h, k, i + 1)
    ELSE LET rest == JoinValues(h, k, i + 1)
         IN  h.v[i].val.v \o (IF rest = <<>> THEN <<>> ELSE <<", ">> \o rest)

HeadersGet(h, k) == PyStr(JoinValues(h, k, 1))

\* headers[k] = x: the first header of that name is replaced where it
\* stands, written k, and the others of that name are removed; a new name is
\* appended
HeadersSet(h, k, x) ==
    LET found == HeaderIndexes(h, k)
        first == CHOOSE i \in found : \A j \in found : i <= j
        kept == SelectSeq([i \in 1..Len(h.v) |-> [i |-> i, item |-> h.v[i]]],
                          LAMBDA e : e.i \notin found \/ e.i = first)
    IN  IF found = {} THEN PyDict(Append(h.v, Item(k, x)))
        ELSE PyDict([n \in 1..Len(kept) |->
                        IF kept[n].i = first THEN Item(k, x) ELSE kept[n].item])

----------------------------------------------------------------------------
(* Authentication: _HeaderAuth *)

\* _HeaderAuth.__init__: the four credentials, None when not given
_HeaderAuth(access_key, secret_key, app_key, bearer) ==
    [access_key |-> access_key, secret_key |-> secret_key,
     app_key |-> app_key, bearer |-> bearer]

\* _HeaderAuth.auth_flow: the headers of the request after the auth flow ran
\* on them.  f"Bearer {self.bearer}" is the concatenation of the chunks.
auth_flow(self, headers) ==
    IF Truthy(self.bearer)
    THEN HeadersSet(headers, "Authorization", PyStr(<<"Bearer ">> \o self.bearer.v))
    ELSE LET h1 == IF Truthy(self.access_key)
                   THEN HeadersSet(headers, "accessKey", self.access_key)
                   ELSE headers
             h2 == IF Truthy(self.secret_key)
                   THEN HeadersSet(h1, "secretKey", self.secret_key)
                   ELSE h1
         IN  IF Truthy(self.app_key)
             THEN HeadersSet(h2, "appKey", self.app_key)
             ELSE h2

----------------------------------------------------------------------------
(* WFirmaAPIClient.__init__ *)

\* an object on which nothing is set yet; also: the caller holds no client
\* closed and cookies are the state of self._client, the httpx.Client: whether
\* it was closed, and its cookie jar as a mapping from name to value
NoClient ==
    LET NoAuth == _HeaderAuth(PyNone, PyNone, PyNone, PyNone)
    IN
    [base_url |-> <<>>, company_id |-> PyNone, has_client |-> FALSE,
     auth |-> NoAuth, headers |-> PyDict(<<>>), resources |-> {},
     closed |-> FALSE, cookies |-> PyDict(<<>>)]

\* str.rstrip("/")
RECURSIVE RStripSlash(_)
RStripSlash(s) ==
    IF s # <<>> /\ s[Len(s)] = "/" THEN RStripSlash(SubSeq(s, 1, Len(s) - 1)) ELSE s

\* the fixed default headers given to httpx.Client, before the caller's
DefaultHeaders ==
    PyDict(<<Item("Accept", S("application/xml")),
             Item("Content-Type", S("application/xml; charset=utf-8"))>>)

\* mutant of AuthMode: any one key is taken for the triple
AuthMode_AnyKey(a) ==
    IF Truthy(a.oauth2_token) THEN "bearer"
    ELSE IF Truthy(a.access_key) \/ Truthy(a.secret_key) \/ Truthy(a.app_key)
         THEN "keys"
         ELSE "none"

\* the auth mode __init__ decides on: "bearer", "keys" or "none"
AuthMode(a) ==
    IF Truthy(a.oauth2_token) THEN "bearer"
    ELSE IF Truthy(a.access_key) /\ Truthy(a.secret_key) /\ Truthy(a.app_key)
         THEN "keys"
         ELSE "none"

\* The constructor on arguments a: the exception it raises ("" for none) and
\* the object self as it leaves it.  base_url and company_id are assigned
\* first; on WFirmaAuthError the httpx client and the resources were not yet
\* set on self, and self is never returned to the caller.
\* self._client.headers holds what was passed as headers=, each entry under
\* the spelling it was given: the mapping is merged as a dict, by the exact
\* key, and looked up as headers, whatever the case (httpx adds only
\* Accept-Encoding, Connection and User-Agent of its own).  The client is
\* open and its cookie jar empty.
__init__(a) ==
    LET mode == AuthMode(a)
        self0 == [NoClient EXCEPT !.base_url = RStripSlash(a.base_url),
                                  !.company_id = a.company_id]
        auth == IF mode = "bearer"
                THEN _HeaderAuth(PyNone, PyNone, PyNone, a.oauth2_token)
                ELSE _HeaderAuth(a.access_key, a.secret_key, a.app_key, PyNone)
    IN  IF mode = "none"
        THEN [exc |-> "WFirmaAuthError", self |-> self0]
        ELSE [exc |-> "",
              self |-> [self0 EXCEPT
                          !.has_client = TRUE,
                          !.auth = auth,
                          !.headers = DictUpdate(DefaultHeaders,
                                                 IF Truthy(a.headers) THEN a.headers
                                                 ELSE PyDict(<<>>)),
                          !.resources = {"contractors", "invoices",
                                         "company_accounts"}]]

----------------------------------------------------------------------------
(* WFirmaAPIClient._request: the request *)

\* mutant of BuildQuery: company_id is sent whenever it is not None
BuildQuery_CompanyNotNone(self, params) ==
    LET q0 == PyDict(<<Item("inputFormat", S("xml")), Item("outputFormat", S("xml"))>>)
        q1 == IF self.company_id.t # "none"
              THEN DictSet(q0, "company_id", self.company_id)
              ELSE q0
        q2 == IF /\ HeadersContains(self.headers, "Authorization")
                 /\ startswith(HeadersGet(self.headers, "Authorization").v, <<"Bearer ">>)
              THEN DictSet(q1, "oauth_version", S("2"))
              ELSE q1
    IN  IF Truthy(params) THEN DictUpdate(q2, params) ELSE q2

\* mutant of BuildQuery: oauth_version is sent when the auth mode is the
\* bearer token
BuildQuery_FromAuthMode(self, params) ==
    LET q0 == PyDict(<<Item("inputFormat", S("xml")), Item("outputFormat", S("xml"))>>)
        q1 == IF Truthy(self.company_id)
              THEN DictSet(q0, "company_id", self.company_id)
              ELSE q0
        q2 == IF Truthy(self.auth.bearer)
              THEN DictSet(q1, "oauth_version", S("2"))
              ELSE q1
    IN  IF Truthy(params) THEN DictUpdate(q2, params) ELSE q2

\* the query parameters q of a call with caller parameters params
BuildQuery(self, params) ==
    LET q0 == PyDict(<<Item("inputFormat", S("xml")), Item("outputFormat", S("xml"))>>)
        q1 == IF Truthy(self.company_id)
              THEN DictSet(q0, "company_id", self.company_id)
              ELSE q0
        q2 == IF /\ HeadersContains(self.headers, "Authorization")
                 /\ startswith(HeadersGet(self.headers, "Authorization").v, <<"Bearer ">>)
              THEN DictSet(q1, "oauth_version", S("2"))
              ELSE q1
    IN  IF Truthy(params) THEN DictUpdate(q2, params) ELSE q2

\* the value of the Cookie header for the cookies items[i..]: name=value
\* pairs joined by "; "
RECURSIVE CookiePairs(_, _)
CookiePairs(items, i) ==
    IF i > Len(items) THEN <<>>
    ELSE (IF i > 1 THEN <<"; ">> ELSE <<>>)
         \o <<items[i].k, "=">> \o items[i].val.v \o CookiePairs(items, i + 1)

\* the headers of a new request: those of the client, and the cookies of
\* its jar in a Cookie header unless the client's headers hold one
WithCookies(headers, jar) ==
    IF ~Truthy(jar) \/ HeadersContains(headers, "Cookie") THEN headers
    ELSE HeadersSet(headers, "Cookie", PyStr(CookiePairs(jar.v, 1)))

\* what self._client.request(method, path, params=q, data=data) hands to the
\* transport: the client's default headers and cookies with the auth flow
\* applied
BuildRequest(self, method, path, params, data) ==
    [method |-> method, path |-> path, params |-> BuildQuery(self, params),
     data |-> data,
     headers |-> auth_flow(self.auth, WithCookies(self.headers, self.cookies))]

\* self._client.request keeps the cookies that the response sets (for the
\* path / of the host) in the jar of the client, whatever the status
extract_cookies(self, resp) ==
    [self EXCEPT !.cookies = DictUpdate(self.cookies, resp.cookies)]

----------------------------------------------------------------------------
(* XML documents.  A body is a sequence of tokens [k, v]: the declaration  *)
(* <?xml version='1.0' encoding='utf-8'?> ("decl"), a start tag <v>        *)
(* ("open"), an end tag </v> ("close"), an empty-element tag <v />         *)
(* ("empty"), a reference &v; to the entity named v ("ref") and a chunk of *)
(* character data v ("text"), which holds no < and no &.  The v of a tag is *)
(* what stands between the < or </ and the end of the tag: a name, or what *)
(* a caller gave for one.                                                  *)

Tok(k, v) == [k |-> k, v |-> v]

\* bytes.strip() takes a whitespace chunk off a body
IsSpace(tk) == tk.k = "text" /\ tk.v \in Whitespace

\* the white space of XML: space, tab, carriage return and line feed
XmlSpace == {" ", "\t", "\r", "\n"}

IsXmlSpace(tk) == tk.k = "text" /\ tk.v \in XmlSpace

\* the characters that no XML document may hold: the control characters
\* but tab, line feed and carriage return
IsInvalidChar(tk) ==
    tk.k = "text" /\ tk.v \in {VT, FF} \cup Separators \cup Controls

\* the declaration <?xml version='1.0' encoding='utf-8'?>, and a newline
Decl == <<Tok("decl", "xml")>>

Space == <<Tok("text", "\n")>>

\* bytes.strip() on a body
RECURSIVE BLStrip(_)
BLStrip(b) == IF b # <<>> /\ IsSpace(Head(b)) THEN BLStrip(Tail(b)) ELSE b

RECURSIVE BRStrip(_)
BRStrip(b) ==
    IF b # <<>> /\ IsSpace(b[Len(b)]) THEN BRStrip(SubSeq(b, 1, Len(b) - 1)) ELSE b

BytesStrip(b) == BRStrip(BLStrip(b))

PyBytes(b) == [t |-> "bytes", v |-> b]

\* the sequences of a sequence, one after the other
RECURSIVE Flatten(_)
Flatten(seqs) ==
    LET n == Len(seqs)
        m == n \div 2
    IN  IF n = 0 THEN <<>>
        ELSE IF n = 1 THEN seqs[1]
        ELSE Flatten(SubSeq(seqs, 1, m)) \o Flatten(SubSeq(seqs, m + 1, n))

\* The position of the parser offset bytes into token i (at the end of the
\* input for i = Len(toks) + 1): the line, from 1, and the column, from 0.
\* A carriage return, a line feed, and a carriage return with the line feed
\* after it each end a line, in a tag as in character data; the column is
\* the bytes since the last of them.  TokText is the bytes of a token in
\* the body.
Position(toks, i, offset) ==
    LET TokText(tk) ==
            CASE tk.k = "decl" -> "<?xml version='1.0' encoding='utf-8'?>"
              [] tk.k = "open" -> "<" \o tk.v \o ">"
              [] tk.k = "close" -> "</" \o tk.v \o ">"
              [] tk.k = "empty" -> "<" \o tk.v \o " />"
              [] tk.k = "ref" -> "&" \o tk.v \o ";"
              [] tk.k = "text" -> tk.v
        RECURSIVE Join(_, _)
        Join(j, k) == IF j > k THEN ""
                      ELSE IF j = k THEN TokText(toks[j])
                      ELSE Join(j, (j + k) \div 2) \o Join((j + k) \div 2 + 1, k)
        Count(read) ==
            LET n == Len(read)
                At(p) == SubSeq(read, p, p)
                breaks == {p \in 1..n : At(p) \in {"\r", "\n"}}
                ends == {p \in breaks : At(p) = "\r" \/ p = 1 \/ At(p - 1) # "\r"}
                last == IF breaks = {} THEN 0
                        ELSE CHOOSE p \in breaks : \A q \in breaks : q <= p
            IN  [line |-> 1 + Cardinality(ends), column |-> n - last]
    IN  Count(IF offset = 0 THEN Join(1, i - 1)
              ELSE Join(1, i - 1) \o SubSeq(TokText(toks[i]), 1, offset))

\* An ET.Element: its tag, its text (None, or the character data before the
\* first child) and its children.  The tail of an element is not kept:
\* nothing reads it.
Element(tag, text, kids) == [tag |-> tag, text |-> text, kids |-> kids]

\* the innermost open element gets a character of data: it goes to its
\* text while it has no child, and to the tail of its last child (dropped)
\* after that.  The text is kept in chunks: a character that stands alone
\* is a chunk, and the other data joins the run before it.
AddText(e, c) ==
    LET old == IF e.text.t = "str" THEN e.text.v ELSE <<>>
        n == Len(old)
    IN  IF e.kids # <<>> THEN e
        ELSE IF n > 0 /\ c \notin Alone /\ old[n] \notin Alone
        THEN Element(e.tag, PyStr([old EXCEPT ![n] = @ \o c]), e.kids)
        ELSE Element(e.tag, PyStr(Append(old, c)), e.kids)

\* a finished element becomes the last child of the innermost open element
Attach(stack, e) ==
    LET n == Len(stack)
        top == stack[n]
    IN  [stack EXCEPT ![n] = Element(top.tag, top.text, Append(top.kids, e))]

\* xml.etree.ElementTree.ParseError raised `offset` bytes into token i: its
\* str() is the message of the parser and the position
ParseError(message, toks, i, offset) ==
    LET pos == Position(toks, i, offset)
    IN  [ok |-> FALSE, root |-> <<>>,
         msg |-> <<message, ": line ", ToString(pos.line), ", column ",
                   ToString(pos.column)>>]

\* A quoted literal outside the document element, opened by the quote at i:
\* it runs to the next quote of its kind (the first quote of a declaration
\* closes a literal in single quotes, and the 1 after it is rejected).
LiteralEnd(toks, i) ==
    LET stops == {j \in (i + 1)..Len(toks) :
                     \/ IsInvalidChar(toks[j])
                     \/ toks[j].k = "decl" /\ toks[i].v = "'"
                     \/ toks[j] = toks[i]}
        j == CHOOSE j \in stops : \A k \in stops : j <= k
    IN  IF stops = {} THEN [closed |-> FALSE, at |-> i, offset |-> 0]
        ELSE IF IsInvalidChar(toks[j]) THEN [closed |-> FALSE, at |-> j, offset |-> 0]
        ELSE IF toks[j].k = "decl" THEN [closed |-> FALSE, at |-> j, offset |-> 15]
        ELSE [closed |-> TRUE, at |-> j + 1, offset |-> 0]

\* the characters that start a name, and those that a name goes on with
NameStart ==
    {"A", "B", "C", "D", "E", "F", "G", "H", "I", "J", "K", "L", "M", "N", "O", "P",
     "Q", "R", "S", "T", "U", "V", "W", "X", "Y", "Z", "_", "a", "b", "c", "d", "e",
     "f", "g", "h", "i", "j", "k", "l", "m", "n", "o", "p", "q", "r", "s", "t", "u",
     "v", "w", "x", "y", "z"}

\* character data that a name can go on with, all of it
RECURSIVE IsNameRun(_)
IsNameRun(text) ==
    LET NameChars ==
            NameStart \cup {"0", "1", "2", "3", "4", "5", "6", "7", "8", "9", ".", "-"}
    IN
    /\ text # ""
    /\ Head(text) \in NameChars
    /\ Len(text) > 1 => IsNameRun(Tail(text))

\* The character data at i, outside the document element, that is no white
\* space; every token is one character, a run of name characters or a piece
\* of markup, and epilog says that the document element is complete.  The parser reads one token of a
\* prolog from i on (a literal, a name with an occurrence sign, a
\* reference with % or #, a bracket, a separator) and refuses it, or finds
\* no token there.
Outside(toks, i, epilog) ==
    LET refused == IF epilog THEN "junk after document element" ELSE "syntax error"
        Refused == ParseError(refused, toks, i, 0)
        Unclosed == ParseError("unclosed token", toks, i, 0)
        Invalid(j) == ParseError("not well-formed (invalid token)", toks, j, 0)
        End(j) == j > Len(toks)
        \* the character data at j: none at the end of the input and at markup
        At(j) == IF j <= Len(toks) /\ toks[j].k = "text" THEN toks[j].v ELSE ""
        RECURSIVE NameEnd(_)
        NameEnd(j) == IF IsNameRun(At(j)) THEN NameEnd(j + 1) ELSE j
        StartsName(text) == text # "" /\ Head(text) \in NameStart
        \* a name ("name"), a name with a prefix ("prefixed") or a name
        \* token that is no name ("nmtoken"), read up to j
        RECURSIVE Name(_, _)
        Name(j, tok) ==
            LET c == At(j)
            IN  CASE End(j) -> Refused
                  [] IsNameRun(c) -> Name(j + 1, tok)
                  [] c \in {">", ")", ",", "|", "[", "%"} \cup XmlSpace -> Refused
                  [] c = ":" /\ tok = "name" ->
                       IF End(j + 1) THEN Unclosed
                       ELSE IF IsNameRun(At(j + 1)) THEN Name(j + 2, "prefixed")
                       ELSE Name(j + 1, "nmtoken")
                  [] c = ":" /\ tok # "name" -> Name(j + 1, "nmtoken")
                  [] c \in {"+", "*", "?"} ->
                       IF tok = "nmtoken" THEN Invalid(j) ELSE Refused
                  [] OTHER -> Invalid(j)
        c == toks[i].v
        next == At(i + 1)
    IN  CASE toks[i].k = "ref" -> Invalid(i)
          [] toks[i].k = "text" /\ c \in Quotes ->
               LET lit == LiteralEnd(toks, i)
               IN  IF ~lit.closed
                   THEN IF lit.at = i THEN Unclosed
                        ELSE ParseError("not well-formed (invalid token)", toks,
                                        lit.at, lit.offset)
                   ELSE IF End(lit.at) \/ At(lit.at) \in XmlSpace \cup {">", "%", "["}
                   THEN Refused
                   ELSE Invalid(lit.at)
          [] toks[i].k = "text" /\ StartsName(c) -> Name(i + 1, "name")
          [] toks[i].k = "text" /\ ~StartsName(c) /\ (IsNameRun(c) \/ c = ":") ->
               Name(i + 1, "nmtoken")
          [] toks[i].k = "text" /\ c \in {"(", ",", "[", "|", ">"} -> Refused
          [] toks[i].k = "text" /\ c = "]" ->
               IF next = "]" /\ End(i + 2) THEN Unclosed ELSE Refused
          [] toks[i].k = "text" /\ c = ")" ->
               IF End(i + 1) \/ next \in XmlSpace \cup {"*", "?", "+", ">", ",", "|", ")"}
               THEN Refused
               ELSE Invalid(i + 1)
          [] toks[i].k = "text" /\ c = "%" ->
               IF End(i + 1) THEN Unclosed
               ELSE IF next \in XmlSpace \cup {"%"} THEN Refused
               ELSE IF ~StartsName(next) THEN Invalid(i + 1)
               ELSE LET j == NameEnd(i + 2)
                    IN  IF End(j) THEN Unclosed
                        ELSE IF At(j) # ";" THEN Invalid(j)
                        ELSE IF epilog THEN Refused
                        ELSE ParseError("illegal parameter entity reference", toks, i, 0)
          [] toks[i].k = "text" /\ c = "#" ->
               IF End(i + 1) THEN Unclosed
               ELSE IF ~StartsName(next) THEN Invalid(i + 1)
               ELSE LET j == NameEnd(i + 2)
                    IN  IF End(j) \/ At(j) \in XmlSpace \cup {")", ">", "%", "|"}
                        THEN Refused
                        ELSE Invalid(j)
          [] OTHER -> Invalid(i)

\* The inside of a tag as the tokenizer reads it, up to the > or the / that
\* ends it: text is what follows < in a start tag or an empty-element tag,
\* and what follows </ in an end tag (closing); it holds name characters,
\* colons and white space before its end.  A name starts with a letter or
\* an underscore; in a start tag it has at most one colon, with the start of
\* a name after it, and the white space after it is followed by the end of
\* the tag or by the name of an attribute, which must have = after it.  An
\* end tag is its name, colons and all, and white space.  The scan gives
\* the name, or the bytes into text (at) where the tokenizer gives up.
ScanTag(text, closing) ==
    LET At(p) == SubSeq(text, p, p)
        Bad(p) == [ok |-> FALSE, at |-> p - 1, name |-> ""]
        Good(end) == [ok |-> TRUE, at |-> 0, name |-> SubSeq(text, 1, end - 1)]
        RECURSIVE Name(_, _), After(_, _), Attribute(_, _), Equals(_)
        Name(p, prefixed) ==
            CASE IsNameRun(At(p)) -> Name(p + 1, prefixed)
              [] At(p) = ":" ->
                   IF closing THEN Name(p + 1, prefixed)
                   ELSE IF prefixed THEN Bad(p)
                   ELSE IF At(p + 1) \in NameStart THEN Name(p + 2, TRUE)
                   ELSE Bad(p + 1)
              [] At(p) \in XmlSpace -> After(p + 1, p)
              [] OTHER -> Good(p)
        After(p, end) ==
            CASE At(p) \in XmlSpace -> After(p + 1, end)
              [] At(p) \in {">", "/"} -> Good(end)
              [] ~closing /\ At(p) \in NameStart -> Attribute(p + 1, FALSE)
              [] OTHER -> Bad(p)
        Attribute(p, prefixed) ==
            CASE IsNameRun(At(p)) -> Attribute(p + 1, prefixed)
              [] At(p) = ":" ->
                   IF prefixed THEN Bad(p)
                   ELSE IF At(p + 1) \in NameStart THEN Attribute(p + 2, TRUE)
                   ELSE Bad(p + 1)
              [] At(p) \in XmlSpace -> Equals(p + 1)
              [] OTHER -> Bad(p)
        Equals(p) == IF At(p) \in XmlSpace THEN Equals(p + 1) ELSE Bad(p)
    IN  IF At(1) \in NameStart THEN Name(2, FALSE) ELSE Bad(1)

\* The tag that ET gives an element of the name `name`: a name with a prefix
\* is in the namespace that the prefix is bound to, and the body declares
\* none, so that xml is the one prefix that is bound.
QName(name) ==
    LET colons == {p \in 1..Len(name) : SubSeq(name, p, p) = ":"}
        colon == CHOOSE p \in colons : TRUE
    IN  IF colons = {} THEN [bound |-> TRUE, tag |-> name]
        ELSE IF SubSeq(name, 1, colon - 1) # "xml" THEN [bound |-> FALSE, tag |-> name]
        ELSE [bound |-> TRUE,
              tag |-> "{http://www.w3.org/XML/1998/namespace}"
                      \o SubSeq(name, colon + 1, Len(name))]

\* the entities that every parser knows, and the character each stands for
Predefined ==
    [lt |-> "<", gt |-> ">", amp |-> "&", quot |-> "\"", apos |-> "'"]

\* One step of ET.fromstring, on token i of a body whose character data is
\* one character or one run of name characters to the token.  The parser
\* st holds the open elements (stack, outermost first) and the names of
\* their start tags (names), the finished document element once there is
\* one (root), and the error it gave up with (err).  In character data a
\* carriage return, alone or with the line feed after it, becomes one line
\* feed.  A reference to a predefined entity is the character it stands
\* for, and ]]> is refused at its last character.  A start tag is read to
\* its end before its prefix is looked up, and an end tag before its name
\* is compared with that of the start tag; after the document element a
\* start tag is refused at its first character.
ParseStep(toks, st, i) ==
    LET tk == toks[i]
        stack == st.stack
        root == st.root
        outside == stack = <<>>
        epilog == root # <<>>
        Fail(e) == [st EXCEPT !.err = <<e>>]
        Invalid(offset) ==
            Fail(ParseError("not well-formed (invalid token)", toks, i, offset))
        Go(stack2, root2) == [st EXCEPT !.stack = stack2, !.root = root2]
        Text(c) == Go([stack EXCEPT ![Len(stack)] = AddText(@, c)], root)
    IN  CASE IsInvalidChar(tk) -> Invalid(0)
          [] tk.k = "decl" ->
               IF i = 1 THEN st
               ELSE IF outside /\ epilog
               THEN Fail(ParseError("junk after document element", toks, i, 0))
               ELSE Fail(ParseError("XML or text declaration not at start of entity",
                                    toks, i, 0))
          [] tk.k \in {"open", "empty"} ->
               LET read == ScanTag(tk.v \o (IF tk.k = "open" THEN ">" ELSE " />"), FALSE)
                   qname == QName(read.name)
                   e == Element(qname.tag, PyNone, <<>>)
               IN  IF outside /\ epilog
                   THEN IF tk.v # "" /\ Head(tk.v) \in NameStart
                        THEN Fail(ParseError("junk after document element", toks, i, 0))
                        ELSE Invalid(1)
                   ELSE IF ~read.ok THEN Invalid(1 + read.at)
                   ELSE IF ~qname.bound THEN Fail(ParseError("unbound prefix", toks, i, 0))
                   ELSE IF tk.k = "open"
                   THEN [st EXCEPT !.stack = Append(stack, e),
                                   !.names = Append(st.names, read.name)]
                   ELSE IF outside THEN Go(stack, <<e>>)
                   ELSE Go(Attach(stack, e), root)
          [] tk.k = "close" ->
               LET read == ScanTag(tk.v \o ">", TRUE)
               IN  IF outside THEN Invalid(1)
                   ELSE IF ~read.ok THEN Invalid(2 + read.at)
                   ELSE IF st.names[Len(stack)] # read.name
                   THEN Fail(ParseError("mismatched tag", toks, i, 2))
                   ELSE LET e == stack[Len(stack)]
                            rest == SubSeq(stack, 1, Len(stack) - 1)
                            names == SubSeq(st.names, 1, Len(stack) - 1)
                        IN  IF rest = <<>>
                            THEN [st EXCEPT !.stack = rest, !.names = names, !.root = <<e>>]
                            ELSE [st EXCEPT !.stack = Attach(rest, e), !.names = names]
          [] tk.k = "ref" ->
               IF outside THEN Fail(Outside(toks, i, epilog))
               ELSE IF tk.v \notin DOMAIN Predefined
               THEN Fail(ParseError("undefined entity", toks, i, 0))
               ELSE Text(Predefined[tk.v])
          [] tk.k = "text" /\ ~IsInvalidChar(tk) ->
               IF outside
               THEN IF IsXmlSpace(tk) THEN st ELSE Fail(Outside(toks, i, epilog))
               ELSE IF tk.v = "\n" /\ toks[i - 1] = Tok("text", "\r") THEN st
               ELSE IF /\ tk.v = ">" /\ i > 2
                       /\ toks[i - 1] = Tok("text", "]") /\ toks[i - 2] = Tok("text", "]")
               THEN Invalid(0)
               ELSE Text(IF tk.v = "\r" THEN "\n" ELSE tk.v)

\* the steps of the parser st on the tokens i to j, one after the other, up
\* to the step at which it gives up: those of the first half, and from the
\* parser they leave (half, the one element of its set) those of the second
RECURSIVE ParseFrom(_, _, _, _)
ParseFrom(toks, st, i, j) ==
    IF st.err # <<>> \/ i > j THEN st
    ELSE IF i = j THEN ParseStep(toks, st, i)
    ELSE CHOOSE end \in {ParseFrom(toks, half, (i + j) \div 2 + 1, j) :
                             half \in {ParseFrom(toks, st, i, (i + j) \div 2)}} : TRUE

\* the tokens of a body with its character data taken apart: a run of name
\* characters stays one token, and any other chunk becomes its characters
Explode(toks) ==
    LET Chars(text) == [n \in 1..Len(text) |-> Tok("text", SubSeq(text, n, n))]
        Pieces(tk) == IF tk.k = "text" /\ Len(tk.v) > 1 /\ ~IsNameRun(tk.v)
                      THEN Chars(tk.v) ELSE <<tk>>
    IN  Flatten([n \in 1..Len(toks) |-> Pieces(toks[n])])

\* ET.fromstring: the document element, when the input ends after it with
\* no element open.  A carriage return that ends the input inside an element
\* is still held back when the parser gives up.  The tokens and the parser
\* after the last of them are taken as values, each the one element of its
\* set.
fromstring(content) ==
    LET start == [stack |-> <<>>, names |-> <<>>, root |-> <<>>, err |-> <<>>]
        Close(toks, st) ==
            IF st.err # <<>> THEN st.err[1]
            ELSE IF st.stack = <<>> /\ st.root # <<>>
            THEN [ok |-> TRUE, root |-> st.root, msg |-> <<>>]
            ELSE IF st.stack # <<>> /\ toks[Len(toks)] = Tok("text", "\r")
            THEN ParseError("no element found", toks, Len(toks), 0)
            ELSE ParseError("no element found", toks, Len(toks) + 1, 0)
        runs == {<<toks, ParseFrom(toks, start, 1, Len(toks))>> :
                    toks \in {Explode(content)}}
    IN  CHOOSE result \in {Close(run[1], run[2]) : run \in runs} : TRUE

\* _escape_cdata of ET.tostring on one chunk of text: &, < and > are
\* written as the references &amp;, &lt; and &gt;, and the characters
\* between them (run, so far) as they are
RECURSIVE EscapeCData(_, _)
EscapeCData(text, run) ==
    LET flush == IF run = "" THEN <<>> ELSE <<Tok("text", run)>>
        c == Head(text)
        Ref(name) == flush \o <<Tok("ref", name)>> \o EscapeCData(Tail(text), "")
    IN  IF text = "" THEN flush
        ELSE CASE c = "&" -> Ref("amp")
               [] c = "<" -> Ref("lt")
               [] c = ">" -> Ref("gt")
               [] OTHER -> EscapeCData(Tail(text), run \o c)

\* ET.tostring(elem): an element without text and children is written as
\* an empty-element tag.  A tag is written as it is, name or not; the tags
\* here hold name characters, colons and white space, and none starts with
\* {, which is how ET marks a tag with a namespace of its own.  A text that
\* is falsy (None, "", 0, an empty list) is not written; a text that is
\* truthy and no str cannot be written, and the token "raise" stands where
\* the serializer gives up with a TypeError.
RECURSIVE SerializeElement(_)
SerializeElement(e) ==
    LET text == IF e.text.t = "str"
                THEN Flatten([n \in 1..Len(e.text.v) |-> EscapeCData(e.text.v[n], "")])
                ELSE IF Truthy(e.text) THEN <<Tok("raise", "TypeError")>>
                ELSE <<>>
        kids == Flatten([n \in 1..Len(e.kids) |-> SerializeElement(e.kids[n])])
    IN  IF text = <<>> /\ e.kids = <<>>
        THEN <<Tok("empty", e.tag)>>
        ELSE <<Tok("open", e.tag)>> \o text \o kids \o <<Tok("close", e.tag)>>

\* ET.tostring(elem, encoding="utf-8", xml_declaration=True): the
\* declaration, a newline, and the element, as bytes; or the TypeError
\* ("cannot serialize ...") with which the serializer gave up
tostring(e) ==
    LET written == SerializeElement(e)
    IN  IF \E n \in 1..Len(written) : written[n].k = "raise"
        THEN [t |-> "raise", v |-> <<"TypeError">>]
        ELSE PyBytes(Decl \o Space \o written)

----------------------------------------------------------------------------
(* The encoders of request bodies *)

\* ET.SubElement(parent, tag) followed by node.text = text
TextElement(tag, text) == Element(tag, text, <<>>)

\* mutant of _wrap_module_body: a field whose value is None is left out
_wrap_module_body_SkipNone(module_plural, record_name, fields) ==
    LET given == SelectSeq(fields.v, LAMBDA it : it.val # PyNone)
        rec == Element(record_name, PyNone,
                       [i \in 1..Len(given) |-> TextElement(given[i].k, str(given[i].val))])
    IN  tostring(Element("api", PyNone, <<Element(module_plural, PyNone, <<rec>>)>>))

\* <api><module_plural><record_name> with one child per field, its text
\* str(v)
_wrap_module_body(module_plural, record_name, fields) ==
    LET rec == Element(record_name, PyNone,
                       [i \in 1..Len(fields.v) |->
                           TextElement(fields.v[i].k, str(fields.v[i].val))])
    IN  tostring(Element("api", PyNone, <<Element(module_plural, PyNone, <<rec>>)>>))

\* mutant of _wrap_parameters: every <parameter> holds <value> before <name>
_wrap_parameters_ValueFirst(module_plural, params) ==
    LET parameter(i) ==
            Element("parameter", PyNone,
                    <<TextElement("value", str(params.v[i].val)),
                      TextElement("name", str(S(params.v[i].k)))>>)
        params_el == Element("parameters", PyNone,
                             [i \in 1..Len(params.v) |-> parameter(i)])
    IN  tostring(Element("api", PyNone, <<Element(module_plural, PyNone, <<params_el>>)>>))

\* <api><module_plural><parameters> with one <parameter> per entry, holding
\* <name>str(name)</name> and <value>str(value)</value>
_wrap_parameters(module_plural, params) ==
    LET parameter(i) ==
            Element("parameter", PyNone,
                    <<TextElement("name", str(S(params.v[i].k))),
                      TextElement("value", str(params.v[i].val))>>)
        params_el == Element("parameters", PyNone,
                             [i \in 1..Len(params.v) |-> parameter(i)])
    IN  tostring(Element("api", PyNone, <<Element(module_plural, PyNone, <<params_el>>)>>))

\* mutant of _build_parameters_xml: <page> and <limit> are written when
\* their argument is truthy
_build_parameters_xml_Truthy(module_plural, page, limit, fields) ==
    LET p == IF Truthy(page) THEN <<TextElement("page", str(page))>> ELSE <<>>
        l == IF Truthy(limit) THEN <<TextElement("limit", str(limit))>> ELSE <<>>
        f == IF Truthy(fields)
             THEN <<Element("fields", PyNone,
                            [i \in 1..Len(fields.v) |-> TextElement("field", fields.v[i])])>>
             ELSE <<>>
        params_el == Element("parameters", PyNone, p \o l \o f)
    IN  tostring(Element("api", PyNone, <<Element(module_plural, PyNone, <<params_el>>)>>))

\* <api><module_plural><parameters> with <page> and <limit> when they are
\* not None and <fields> when fields is truthy, with one <field> for each
\* entry that the loop over fields gives (the entries of a list, the keys
\* of a mapping, the characters of a str), the entry itself as its text,
\* not its string form: an entry that is truthy and no str ends the call in
\* the TypeError of ET.tostring, and so does a truthy fields that gives
\* numbers (bytes) or cannot be looped over (an int).
_build_parameters_xml(module_plural, page, limit, fields) ==
    LET p == IF page # PyNone THEN <<TextElement("page", str(page))>> ELSE <<>>
        l == IF limit # PyNone THEN <<TextElement("limit", str(limit))>> ELSE <<>>
        entries == CASE fields.t = "list" -> fields.v
                     [] fields.t = "dict" -> [i \in 1..Len(fields.v) |-> S(fields.v[i].k)]
                     [] fields.t = "str" ->
                          LET chars == Flatten([n \in 1..Len(fields.v) |->
                                  [c \in 1..Len(fields.v[n]) |-> SubSeq(fields.v[n], c, c)]])
                          IN  [i \in 1..Len(chars) |-> S(chars[i])]
                     [] OTHER -> <<>>
        f == IF Truthy(fields)
             THEN <<Element("fields", PyNone,
                            [i \in 1..Len(entries) |-> TextElement("field", entries[i])])>>
             ELSE <<>>
        params_el == Element("parameters", PyNone, p \o l \o f)
    IN  IF Truthy(fields) /\ fields.t \in {"int", "bytes"}
        THEN [t |-> "raise", v |-> <<"TypeError">>]
        ELSE tostring(Element("api", PyNone, <<Element(module_plural, PyNone, <<params_el>>)>>))

----------------------------------------------------------------------------
(* WFirmaAPIClient._etree_to_dict *)

\* mutant of GroupByTag: a later child replaces the earlier ones of its tag
RECURSIVE GroupByTag_KeepLast(_, _)
GroupByTag_KeepLast(children, grouped) ==
    IF children = <<>> THEN grouped
    ELSE LET c == Head(children)
             g == IF \E i \in 1..Len(grouped) : grouped[i].k = c.tag
                  THEN [i \in 1..Len(grouped) |->
                          IF grouped[i].k = c.tag
                          THEN [k |-> c.tag, nodes |-> <<c>>]
                          ELSE grouped[i]]
                  ELSE Append(grouped, [k |-> c.tag, nodes |-> <<c>>])
         IN  GroupByTag_KeepLast(Tail(children), g)

\* for c in children: grouped.setdefault(c.tag, []).append(c)
RECURSIVE GroupByTag(_, _)
GroupByTag(children, grouped) ==
    IF children = <<>> THEN grouped
    ELSE LET c == Head(children)
             g == IF \E i \in 1..Len(grouped) : grouped[i].k = c.tag
                  THEN [i \in 1..Len(grouped) |->
                          IF grouped[i].k = c.tag
                          THEN [k |-> c.tag, nodes |-> Append(grouped[i].nodes, c)]
                          ELSE grouped[i]]
                  ELSE Append(grouped, [k |-> c.tag, nodes |-> <<c>>])
         IN  GroupByTag(Tail(children), g)

\* mutant of _etree_to_dict: the text of a leaf is not trimmed
RECURSIVE _etree_to_dict_NoStrip(_)
_etree_to_dict_NoStrip(elem) ==
    IF elem.kids = <<>>
    THEN PyStr(IF Truthy(elem.text) THEN elem.text.v ELSE <<>>)
    ELSE LET grouped == GroupByTag(elem.kids, <<>>)
         IN  PyDict([i \in 1..Len(grouped) |->
                 LET nodes == grouped[i].nodes
                 IN  Item(grouped[i].k,
                          IF Len(nodes) = 1
                          THEN _etree_to_dict_NoStrip(nodes[1])
                          ELSE PyList([j \in 1..Len(nodes) |->
                                          _etree_to_dict_NoStrip(nodes[j])]))])

RECURSIVE _etree_to_dict(_)
_etree_to_dict(elem) ==
    IF elem.kids = <<>>
    THEN PyStr(Strip(IF Truthy(elem.text) THEN elem.text.v ELSE <<>>))
    ELSE LET grouped == GroupByTag(elem.kids, <<>>)
         IN  PyDict([i \in 1..Len(grouped) |->
                 LET nodes == grouped[i].nodes
                 IN  Item(grouped[i].k,
                          IF Len(nodes) = 1
                          THEN _etree_to_dict(nodes[1])
                          ELSE PyList([j \in 1..Len(nodes) |->
                                          _etree_to_dict(nodes[j])]))])

----------------------------------------------------------------------------
(* WFirmaAPIClient._request: the response *)

\* how a call ends: it returns value, or raises exc; a WFirmaAPIError
\* carries status_code and payload, and message is its str()
NoOutcome ==
    [kind |-> "none", exc |-> "", status_code |-> PyNone, message |-> <<>>,
     payload |-> PyNone, value |-> PyNone]

Return(value) == [NoOutcome EXCEPT !.kind = "return", !.value = value]

\* WFirmaAPIError.__init__: the message is f"[{status_code}] {message}",
\* with - for a status_code that is None
WFirmaAPIError(status_code, message, payload) ==
    [NoOutcome EXCEPT !.kind = "raise", !.exc = "WFirmaAPIError",
                      !.status_code = status_code,
                      !.message = <<"[">>
                                  \o (IF status_code.t = "none" THEN <<"-">>
                                      ELSE str(status_code).v)
                                  \o <<"] ">> \o message,
                      !.payload = payload]

\* an exception of Python's own, raised by an operation on a value, or of
\* httpx, raised by the transport
Raise(exc) == [NoOutcome EXCEPT !.kind = "raise", !.exc = exc]

\* httpx.Response.is_success
is_success(resp) == resp.status_code >= 200 /\ resp.status_code <= 299

ReprChunk(c, quote) ==
    CASE c = Backslash -> "\\\\"
      [] c = "\t" -> "\\t"
      [] c = "\n" -> "\\n"
      [] c = "\r" -> "\\r"
      [] c = VT -> "\\x0b"
      [] c = FF -> "\\x0c"
      [] c = "" -> "\\x01"
      [] c = "" -> "\\x02"
      [] c = "" -> "\\x03"
      [] c = "" -> "\\x04"
      [] c = "" -> "\\x05"
      [] c = "" -> "\\x06"
      [] c = "" -> "\\x07"
      [] c = "" -> "\\x08"
      [] c = "" -> "\\x0e"
      [] c = "" -> "\\x0f"
      [] c = "" -> "\\x10"
      [] c = "" -> "\\x11"
      [] c = "" -> "\\x12"
      [] c = "" -> "\\x13"
      [] c = "" -> "\\x14"
      [] c = "" -> "\\x15"
      [] c = "" -> "\\x16"
      [] c = "" -> "\\x17"
      [] c = "" -> "\\x18"
      [] c = "" -> "\\x19"
      [] c = "" -> "\\x1a"
      [] c = "" -> "\\x1b"
      [] c = "" -> "\\x1c"
      [] c = "" -> "\\x1d"
      [] c = "" -> "\\x1e"
      [] c = "" -> "\\x1f"
      [] c = "" -> "\\x7f"
      [] c = "'" /\ quote = "'" -> "\\'"
      [] OTHER -> c

\* repr(x) of a value formatted into an f-string
RECURSIVE Repr(_)
Repr(x) ==
    \* repr() of a str writes it between single quotes, or between double
    \* quotes when it holds a single quote and no double quote, and escapes the
    \* backslash, the quote it is written between, and the characters that do
    \* not print
    LET ReprQuote(chunks) ==
            IF /\ \E i \in 1..Len(chunks) : chunks[i] = "'"
               /\ \A i \in 1..Len(chunks) : chunks[i] # "\""
            THEN "\"" ELSE "'"
    IN
    LET RECURSIVE Join(_, _)
        Join(items, i) ==
            IF i > Len(items) THEN <<>>
            ELSE (IF i > 1 THEN <<", ">> ELSE <<>>)
                 \o (IF x.t = "dict"
                     THEN <<"'", items[i].k, "': ">> \o Repr(items[i].val)
                     ELSE Repr(items[i]))
                 \o Join(items, i + 1)
        quote == ReprQuote(x.v)
    IN  CASE x.t = "str" ->
               <<quote>> \o [i \in 1..Len(x.v) |-> ReprChunk(x.v[i], quote)] \o <<quote>>
          [] x.t = "list" -> <<"[">> \o Join(x.v, 1) \o <<"]">>
          [] x.t = "dict" -> <<"{">> \o Join(x.v, 1) \o <<"}">>
          [] x.t = "int" -> <<ToString(x.v[1])>>
          [] x.t = "none" -> <<"None">>

Format(x) == IF x.t = "str" THEN x.v ELSE Repr(x)

\* mutant of Unwrap: a later child replaces the earlier one of its tag
RECURSIVE Unwrap_LastWins(_, _)
Unwrap_LastWins(children, data_dict) ==
    IF children = <<>> THEN data_dict
    ELSE Unwrap_LastWins(Tail(children),
                         DictSet(data_dict, Head(children).tag,
                                 _etree_to_dict(Head(children))))

\* for child in root: data_dict.setdefault(child.tag, _etree_to_dict(child))
RECURSIVE Unwrap(_, _)
Unwrap(children, data_dict) ==
    IF children = <<>> THEN data_dict
    ELSE Unwrap(Tail(children),
                SetDefault(data_dict, Head(children).tag, _etree_to_dict(Head(children))))

\* the decoded response: the children of an <api> root by tag, or the root
\* itself decoded
Decode(root) ==
    IF root.tag = "api" THEN Unwrap(root.kids, PyDict(<<>>)) ELSE _etree_to_dict(root)

\* mutant of StatusCheck: a failing code raises only under a failing HTTP
\* status
StatusCheck_HttpOnly(resp, data_dict) ==
    IF ~isinstance(data_dict, "dict") THEN Raise("AttributeError")
    ELSE LET st == DictGet(data_dict, "status")
             status_code == IF isinstance(st, "dict") THEN DictGet(st, "code") ELSE PyNone
         IN  IF /\ ~is_success(resp)
                /\ Truthy(status_code) /\ status_code \notin {S("OK"), S("NO_CONTENT")}
             THEN WFirmaAPIError(PyInt(resp.status_code),
                                 <<"API status != OK: ">> \o Format(status_code),
                                 data_dict)
             ELSE Return(data_dict)

\* mutant of StatusCheck: the code is also read from a status that is a
\* str (the str itself) or a sequence (the code of its first mapping)
StatusCheck_AnyStatus(resp, data_dict) ==
    IF ~isinstance(data_dict, "dict") THEN Raise("AttributeError")
    ELSE LET st == DictGet(data_dict, "status")
             first == IF isinstance(st, "list") /\ st.v # <<>> THEN st.v[1] ELSE st
             status_code == IF isinstance(first, "dict") THEN DictGet(first, "code")
                            ELSE IF isinstance(first, "str") THEN first
                            ELSE PyNone
         IN  IF Truthy(status_code) /\ status_code \notin {S("OK"), S("NO_CONTENT")}
             THEN WFirmaAPIError(PyInt(resp.status_code),
                                 <<"API status != OK: ">> \o Format(status_code),
                                 data_dict)
             ELSE Return(data_dict)

\* mutant of StatusCheck: a decoded root that is a str is returned as it is
StatusCheck_ReturnStr(resp, data_dict) ==
    IF ~isinstance(data_dict, "dict") THEN Return(data_dict)
    ELSE LET st == DictGet(data_dict, "status")
             status_code == IF isinstance(st, "dict") THEN DictGet(st, "code") ELSE PyNone
         IN  IF Truthy(status_code) /\ status_code \notin {S("OK"), S("NO_CONTENT")}
             THEN WFirmaAPIError(PyInt(resp.status_code),
                                 <<"API status != OK: ">> \o Format(status_code),
                                 data_dict)
             ELSE Return(data_dict)

\* mutant of StatusCheck: a code that is a sequence of "OK" passes
StatusCheck_AllOk(resp, data_dict) ==
    IF ~isinstance(data_dict, "dict") THEN Raise("AttributeError")
    ELSE LET st == DictGet(data_dict, "status")
             status_code == IF isinstance(st, "dict") THEN DictGet(st, "code") ELSE PyNone
             allOk == /\ isinstance(status_code, "list")
                      /\ \A i \in 1..Len(status_code.v) : status_code.v[i] = S("OK")
         IN  IF /\ Truthy(status_code) /\ status_code \notin {S("OK"), S("NO_CONTENT")}
                /\ ~allOk
             THEN WFirmaAPIError(PyInt(resp.status_code),
                                 <<"API status != OK: ">> \o Format(status_code),
                                 data_dict)
             ELSE Return(data_dict)

\* mutant of StatusCheck: a code that is the empty str is a failure
StatusCheck_EmptyCodeFails(resp, data_dict) ==
    IF ~isinstance(data_dict, "dict") THEN Raise("AttributeError")
    ELSE LET st == DictGet(data_dict, "status")
             status_code == IF isinstance(st, "dict") THEN DictGet(st, "code") ELSE PyNone
         IN  IF status_code # PyNone /\ status_code \notin {S("OK"), S("NO_CONTENT")}
             THEN WFirmaAPIError(PyInt(resp.status_code),
                                 <<"API status != OK: ">> \o Format(status_code),
                                 data_dict)
             ELSE Return(data_dict)

\* mutant of StatusCheck: a response without a status code is a failure
StatusCheck_RequireCode(resp, data_dict) ==
    IF ~isinstance(data_dict, "dict") THEN Raise("AttributeError")
    ELSE LET st == DictGet(data_dict, "status")
             status_code == IF isinstance(st, "dict") THEN DictGet(st, "code") ELSE PyNone
         IN  IF status_code \notin {S("OK"), S("NO_CONTENT")}
             THEN WFirmaAPIError(PyInt(resp.status_code),
                                 <<"API status != OK: ">> \o Format(status_code),
                                 data_dict)
             ELSE Return(data_dict)

\* The status check on the decoded response.  data_dict.get raises
\* AttributeError when the decoded root is a str.
StatusCheck(resp, data_dict) ==
    IF ~isinstance(data_dict, "dict") THEN Raise("AttributeError")
    ELSE LET st == DictGet(data_dict, "status")
             status_code == IF isinstance(st, "dict") THEN DictGet(st, "code") ELSE PyNone
         IN  IF Truthy(status_code) /\ status_code \notin {S("OK"), S("NO_CONTENT")}
             THEN WFirmaAPIError(PyInt(resp.status_code),
                                 <<"API status != OK: ">> \o Format(status_code),
                                 data_dict)
             ELSE Return(data_dict)

\* mutant of HandleResponse: the body is not trimmed
HandleResponse_NoStrip(resp) ==
    LET content == resp.content
        parsed == fromstring(content)
    IN  IF content = <<>>
        THEN IF ~is_success(resp)
             THEN WFirmaAPIError(PyInt(resp.status_code), <<"HTTP error without body">>, PyNone)
             ELSE Return(PyDict(<<Item("status", PyDict(<<Item("code", S("NO_CONTENT"))>>))>>))
        ELSE IF ~parsed.ok
             THEN WFirmaAPIError(PyInt(resp.status_code),
                                 <<"Failed to parse XML: ">> \o parsed.msg,
                                 PyBytes(content))
             ELSE StatusCheck(resp, Decode(parsed.root[1]))

\* mutant of HandleResponse: a failing HTTP status raises whatever the body
HandleResponse_RaiseForStatus(resp) ==
    LET content == BytesStrip(resp.content)
        parsed == fromstring(content)
    IN  IF ~is_success(resp)
        THEN WFirmaAPIError(PyInt(resp.status_code), <<"HTTP error without body">>, PyNone)
        ELSE IF content = <<>>
             THEN Return(PyDict(<<Item("status", PyDict(<<Item("code", S("NO_CONTENT"))>>))>>))
             ELSE IF ~parsed.ok
                  THEN WFirmaAPIError(PyInt(resp.status_code),
                                      <<"Failed to parse XML: ">> \o parsed.msg,
                                      PyBytes(content))
                  ELSE StatusCheck(resp, Decode(parsed.root[1]))

\* what _request does with the response of the transport
HandleResponse(resp) ==
    LET content == BytesStrip(resp.content)
        parsed == fromstring(content)
    IN  IF content = <<>>
        THEN IF ~is_success(resp)
             THEN WFirmaAPIError(PyInt(resp.status_code), <<"HTTP error without body">>, PyNone)
             ELSE Return(PyDict(<<Item("status", PyDict(<<Item("code", S("NO_CONTENT"))>>))>>))
        ELSE IF ~parsed.ok
             THEN WFirmaAPIError(PyInt(resp.status_code),
                                 <<"Failed to parse XML: ">> \o parsed.msg,
                                 PyBytes(content))
             ELSE StatusCheck(resp, Decode(parsed.root[1]))

----------------------------------------------------------------------------
(* State and actions *)

NoRequest ==
    [method |-> "", path |-> <<>>, params |-> PyDict(<<>>), data |-> PyNone,
     headers |-> PyDict(<<>>)]

\* a response: its HTTP status, its body, and the cookies it sets
NoResponse == [status_code |-> 0, content |-> <<>>, cookies |-> PyDict(<<>>)]

\* what the transport has of a response once its head has arrived: the
\* status and the cookies, and the body still to come
HeadOf(resp) == [resp EXCEPT !.content = <<>>]

\* The last _request call: pc is "idle" before the first call, "sent" while
\* the call waits in self._client.request for the response, "head" while it
\* waits there for the body of a response whose head has arrived, and "done"
\* when it has returned or raised.
NoCall ==
    [pc |-> "idle", params |-> PyNone, req |-> NoRequest, resp |-> NoResponse,
     outcome |-> NoOutcome]

NoPrev == [resp |-> NoResponse, outcome |-> NoOutcome]

\* the arguments of WFirmaAPIClient() as its signature fills them in, with
\* no WFIRMA_ variable in the environment (client.py:13, 46-59)
NoArgs ==
    [base_url |-> <<"https://api2.wfirma.pl">>, company_id |-> PyNone, access_key |-> PyNone,
     secret_key |-> PyNone, app_key |-> PyNone, oauth2_token |-> PyNone,
     headers |-> PyNone]

\* the threads of the caller
Threads == {"t1", "t2"}

\* A thread: pc is "idle" before its call, "sent" while it waits in
\* self._client.request for the response, "head" while it waits there for
\* the body of a response whose head has arrived, and "done" when the call
\* has returned or raised; op is the call, params the params mapping that
\* _request was given, and trips the requests it handed to the transport.
Idle ==
    \* a call of a method of the SDK: its qualified name and its keyword
    \* arguments
    LET NoOp == [name |-> "", kwargs |-> PyDict(<<>>)]
    IN
    [pc |-> "idle", op |-> NoOp, params |-> PyNone, req |-> NoRequest,
     resp |-> NoResponse, outcome |-> NoOutcome, trips |-> 0]

Init ==
    /\ ctor = [called |-> FALSE, args |-> NoArgs, exc |-> "", self |-> NoClient]
    /\ client = NoClient
    /\ call = NoCall
    /\ prev = NoPrev
    /\ nSent = 0
    /\ threads = [t \in Threads |-> Idle]

\* client = WFirmaAPIClient(**a): the caller gets the object only when the
\* constructor raised nothing
Construct(a) ==
    /\ ~ctor.called
    /\ LET r == __init__(a)
       IN  /\ ctor' = [called |-> TRUE, args |-> a, exc |-> r.exc, self |-> r.self]
           /\ client' = IF r.exc = "" THEN r.self ELSE NoClient
    /\ UNCHANGED <<call, prev, nSent, threads>>

\* client._request(method, path, params=params, data=data), up to the
\* transport (client.py:173-186): the request is built and handed to the
\* transport, where the call waits for the response.  A closed client
\* refuses to send: the call raises RuntimeError and no request goes out.
\* Nothing is assigned on the client.
_request(method, path, params, data) ==
    /\ client.has_client
    /\ call.pc \in {"idle", "done"}
    /\ nSent < MaxCalls
    /\ prev' = IF call.pc = "idle" THEN NoPrev
               ELSE [resp |-> call.resp, outcome |-> call.outcome]
    /\ IF client.closed
       THEN /\ call' = [NoCall EXCEPT !.pc = "done", !.params = params,
                                      !.outcome = Raise("RuntimeError")]
            /\ nSent' = nSent
       ELSE /\ call' = [NoCall EXCEPT
                          !.pc = "sent", !.params = params,
                          !.req = BuildRequest(client, method, path, params, data)]
            /\ nSent' = nSent + 1
    /\ UNCHANGED <<ctor, client, threads>>

\* The head of the response resp reaches the transport client, which keeps
\* its cookies at once; the _request call goes on waiting in
\* self._client.request (client.py:186) for the body, and no lock is held.
\* On a client that was closed meanwhile, the call goes on like this when
\* its connection was still being made at the close; a connection that was
\* made is gone: no head arrives, no cookie is kept, and
\* self._client.request raises httpx.ReadError, which _request lets through.
\* The client keeps no record of which it was, and either step is possible.
RespondHead(resp) ==
    /\ call.pc = "sent"
    /\ \/ /\ call' = [call EXCEPT !.pc = "head", !.resp = HeadOf(resp)]
          /\ client' = extract_cookies(client, resp)
       \/ /\ client.closed
          /\ call' = [call EXCEPT !.pc = "done", !.outcome = Raise("httpx.ReadError")]
          /\ client' = client
    /\ UNCHANGED <<ctor, prev, nSent, threads>>

\* The body of the response resp, whose head has arrived, is complete:
\* self._client.request returns resp to the waiting _request call, which ends
\* as HandleResponse says (client.py:186-217).  On a client that was closed
\* meanwhile, a call whose connection outlived the close ends like this too;
\* when the connection is gone the body does not arrive, and
\* self._client.request raises httpx.ReadError, which _request lets through.
Respond(resp) ==
    /\ call.pc = "head"
    /\ HeadOf(resp) = call.resp
    /\ \/ call' = [call EXCEPT !.pc = "done", !.resp = resp,
                                !.outcome = HandleResponse(resp)]
       \/ /\ client.closed
          /\ call' = [call EXCEPT !.pc = "done", !.outcome = Raise("httpx.ReadError")]
    /\ UNCHANGED <<ctor, client, prev, nSent, threads>>

\* client.close() closes the httpx client and its connections
\* (client.py:219-220); closing a closed client changes nothing.  A call that
\* waits for its response, head or body, finds its connection gone at its
\* next step, unless the connection was still being made at the close: that
\* one is made all the same, and the call ends as on an open client.
close ==
    /\ client.has_client
    /\ client' = [client EXCEPT !.closed = TRUE]
    /\ UNCHANGED <<ctor, call, prev, nSent, threads>>

\* with client: returns the client itself (client.py:222-223)
__enter__ ==
    /\ client.has_client
    /\ UNCHANGED vars

\* the end of the with block, however it is left: close() (client.py:225-226),
\* with the same end for a call that still waits for its response
__exit__ ==
    /\ client.has_client
    /\ client' = [client EXCEPT !.closed = TRUE]
    /\ UNCHANGED <<ctor, call, prev, nSent, threads>>

----------------------------------------------------------------------------
(* The resource methods (src/wfirma_sdk/resources) and their callers *)

\* what a method does before the transport is reached: it raises exc, or it
\* calls _request(method, path, params=params, data=data)
Requests(method, path, params, data) ==
    [exc |-> "", method |-> method, path |-> path, params |-> params, data |-> data]

Raises(exc) ==
    [exc |-> exc, method |-> "", path |-> <<>>, params |-> PyNone, data |-> PyNone]

\* The signature of a method, self apart: its named parameters, those
\* without a default, and whether it collects further keywords in
\* **parameters.  Every default is None.
ContractorsResource(name) ==
    CASE name = "contractors.add" ->
           [params |-> {"contractor_fields"}, required |-> {"contractor_fields"},
            varkw |-> FALSE]
      [] name = "contractors.get" ->
           [params |-> {"contractor_id"}, required |-> {"contractor_id"}, varkw |-> FALSE]
      [] name = "contractors.edit" ->
           [params |-> {"contractor_id", "fields"},
            required |-> {"contractor_id", "fields"}, varkw |-> FALSE]
      [] name = "contractors.find" ->
           [params |-> {"parameters_xml", "page", "limit", "fields"}, required |-> {},
            varkw |-> FALSE]

InvoicesResource(name) ==
    CASE name = "invoices.get" ->
           [params |-> {"invoice_id"}, required |-> {"invoice_id"}, varkw |-> FALSE]
      [] name = "invoices.add" ->
           [params |-> {"invoice_xml_body", "invoice_fields"}, required |-> {},
            varkw |-> FALSE]
      [] name \in {"invoices.download", "invoices.send"} ->
           [params |-> {"invoice_id"}, required |-> {"invoice_id"}, varkw |-> TRUE]
      [] name = "invoices.find" ->
           [params |-> {"parameters_xml"}, required |-> {"parameters_xml"}, varkw |-> FALSE]

CompanyAccountsResource(name) ==
    CASE name = "company_accounts.find" ->
           [params |-> {}, required |-> {}, varkw |-> FALSE]
      [] name = "company_accounts.get" ->
           [params |-> {"account_id"}, required |-> {"account_id"}, varkw |-> FALSE]

\* the methods by name: those of client.contractors, client.invoices and
\* client.company_accounts, and _request of the client itself
Signature(name) ==
    \* _request(method, path, *, params=None, data=None)
    LET RequestSignature ==
            [params |-> {"method", "path", "params", "data"}, required |-> {"method", "path"},
             varkw |-> FALSE]
    IN
    CASE name \in {"contractors.add", "contractors.get", "contractors.edit",
                   "contractors.find"} -> ContractorsResource(name)
      [] name \in {"invoices.get", "invoices.add", "invoices.download", "invoices.send",
                   "invoices.find"} -> InvoicesResource(name)
      [] name \in {"company_accounts.find", "company_accounts.get"} ->
           CompanyAccountsResource(name)
      [] name = "_request" -> RequestSignature

\* Python binds the keyword arguments of a call: an unexpected keyword, a
\* keyword self (the receiver has its value already, and **parameters does
\* not take it) and a missing argument are a TypeError
Binds(op) ==
    LET sig == Signature(op.name)
    IN  /\ "self" \notin Keys(op.kwargs)
        /\ sig.varkw \/ Keys(op.kwargs) \subseteq sig.params
        /\ sig.required \subseteq Keys(op.kwargs)

\* **parameters: the keywords that are no named parameter, in call order
VarKeywords(op) ==
    PyDict(SelectSeq(op.kwargs.v, LAMBDA it : it.k \notin Signature(op.name).params))

\* WFirmaAPIClient._post_module_record; fields.items() needs a mapping
_post_module_record(path, module_plural, record_name, fields) ==
    IF ~isinstance(fields, "dict") THEN Raises("AttributeError")
    ELSE Requests("POST", path, PyNone, _wrap_module_body(module_plural, record_name, fields))

\* ContractorsResource
contractors_add(kw) ==
    _post_module_record(<<"/contractors/add">>, "contractors", "contractor",
                        DictGet(kw, "contractor_fields"))

contractors_get(kw) ==
    Requests("GET", <<"/contractors/get/">> \o str(DictGet(kw, "contractor_id")).v,
             PyNone, PyNone)

contractors_edit(kw) ==
    _post_module_record(<<"/contractors/edit/">> \o str(DictGet(kw, "contractor_id")).v,
                        "contractors", "contractor", DictGet(kw, "fields"))

contractors_find(kw) ==
    IF DictGet(kw, "parameters_xml") # PyNone
    THEN Requests("POST", <<"/contractors/find">>, PyNone, DictGet(kw, "parameters_xml"))
    ELSE LET xml == _build_parameters_xml("contractors", DictGet(kw, "page"),
                                          DictGet(kw, "limit"), DictGet(kw, "fields"))
         IN  IF xml.t = "raise" THEN Raises(xml.v[1])
             ELSE Requests("POST", <<"/contractors/find">>, PyNone, xml)

\* InvoicesResource
invoices_get(kw) ==
    Requests("GET", <<"/invoices/get/">> \o str(DictGet(kw, "invoice_id")).v, PyNone, PyNone)

\* mutant of invoices_add: the fields, when given, win over the pre-built
\* body
invoices_add_FieldsFirst(kw) ==
    IF isinstance(DictGet(kw, "invoice_fields"), "dict")
    THEN Requests("POST", <<"/invoices/add">>, PyNone,
                  _wrap_module_body("invoices", "invoice", DictGet(kw, "invoice_fields")))
    ELSE IF DictGet(kw, "invoice_xml_body") # PyNone
    THEN Requests("POST", <<"/invoices/add">>, PyNone, DictGet(kw, "invoice_xml_body"))
    ELSE Raises("ValueError")

\* mutant of invoices_add: without a body and without fields, an empty
\* record is sent
invoices_add_EmptyRecord(kw) ==
    IF DictGet(kw, "invoice_xml_body") # PyNone
    THEN Requests("POST", <<"/invoices/add">>, PyNone, DictGet(kw, "invoice_xml_body"))
    ELSE IF DictGet(kw, "invoice_fields") = PyNone
    THEN Requests("POST", <<"/invoices/add">>, PyNone,
                  _wrap_module_body("invoices", "invoice", PyDict(<<>>)))
    ELSE IF ~isinstance(DictGet(kw, "invoice_fields"), "dict") THEN Raises("AttributeError")
    ELSE Requests("POST", <<"/invoices/add">>, PyNone,
                  _wrap_module_body("invoices", "invoice", DictGet(kw, "invoice_fields")))

invoices_add(kw) ==
    IF DictGet(kw, "invoice_xml_body") # PyNone
    THEN Requests("POST", <<"/invoices/add">>, PyNone, DictGet(kw, "invoice_xml_body"))
    ELSE IF DictGet(kw, "invoice_fields") = PyNone THEN Raises("ValueError")
    ELSE IF ~isinstance(DictGet(kw, "invoice_fields"), "dict") THEN Raises("AttributeError")
    ELSE Requests("POST", <<"/invoices/add">>, PyNone,
                  _wrap_module_body("invoices", "invoice", DictGet(kw, "invoice_fields")))

invoices_download(kw, parameters) ==
    Requests("POST", <<"/invoices/download/">> \o str(DictGet(kw, "invoice_id")).v, PyNone,
             _wrap_parameters("invoices",
                              IF Truthy(parameters) THEN parameters
                              ELSE PyDict(<<Item("page", S("all"))>>)))

invoices_send(kw, parameters) ==
    Requests("POST", <<"/invoices/send/">> \o str(DictGet(kw, "invoice_id")).v, PyNone,
             _wrap_parameters("invoices", parameters))

invoices_find(kw) ==
    Requests("POST", <<"/invoices/find">>, PyNone, DictGet(kw, "parameters_xml"))

\* CompanyAccountsResource
company_accounts_find(kw) == Requests("GET", <<"/company_accounts/find">>, PyNone, PyNone)

company_accounts_get(kw) ==
    Requests("GET", <<"/company_accounts/get/">> \o str(DictGet(kw, "account_id")).v,
             PyNone, PyNone)

\* the call op, up to the transport
Dispatch(op) ==
    LET kw == op.kwargs
    IN  IF ~Binds(op) THEN Raises("TypeError")
        ELSE CASE op.name = "contractors.add" -> contractors_add(kw)
               [] op.name = "contractors.get" -> contractors_get(kw)
               [] op.name = "contractors.edit" -> contractors_edit(kw)
               [] op.name = "contractors.find" -> contractors_find(kw)
               [] op.name = "invoices.get" -> invoices_get(kw)
               [] op.name = "invoices.add" -> invoices_add(kw)
               [] op.name = "invoices.download" -> invoices_download(kw, VarKeywords(op))
               [] op.name = "invoices.send" -> invoices_send(kw, VarKeywords(op))
               [] op.name = "invoices.find" -> invoices_find(kw)
               [] op.name = "company_accounts.find" -> company_accounts_find(kw)
               [] op.name = "company_accounts.get" -> company_accounts_get(kw)
               [] op.name = "_request" ->
                    Requests(DictGet(kw, "method").v[1], DictGet(kw, "path").v,
                             DictGet(kw, "params"), DictGet(kw, "data"))

\* Thread t makes the call op.  The method runs until it raises or until
\* _request has built the request and handed it to the transport, where the
\* thread waits (client.py:173-186); a closed client refuses to send, and the
\* call raises RuntimeError.  Nothing is assigned on the client.
Invoke(t, op) ==
    /\ client.has_client
    /\ threads[t].pc = "idle"
    /\ LET r == Dispatch(op)
       IN  threads' =
             [threads EXCEPT ![t] =
                IF r.exc # ""
                THEN [threads[t] EXCEPT !.pc = "done", !.op = op, !.outcome = Raise(r.exc)]
                ELSE IF client.closed
                THEN [threads[t] EXCEPT !.pc = "done", !.op = op, !.params = r.params,
                                        !.outcome = Raise("RuntimeError")]
                ELSE [threads[t] EXCEPT
                        !.pc = "sent", !.op = op, !.params = r.params,
                        !.req = BuildRequest(client, r.method, r.path, r.params, r.data),
                        !.trips = threads[t].trips + 1]]
    /\ UNCHANGED <<ctor, client, call, prev, nSent>>

\* The head of the response resp to the request of thread t reaches the
\* transport client, which keeps its cookies at once; the thread goes on
\* waiting in self._client.request (client.py:186) for the body.  No lock is
\* held: the other thread runs meanwhile.  On a client that was closed
\* meanwhile either this happens (the connection was still being made at
\* the close), or no head arrives and no cookie is kept: the call raises
\* httpx.ReadError.
ReceiveHead(t, resp) ==
    /\ threads[t].pc = "sent"
    /\ \/ /\ threads' = [threads EXCEPT ![t].pc = "head", ![t].resp = HeadOf(resp)]
          /\ client' = extract_cookies(client, resp)
       \/ /\ client.closed
          /\ threads' = [threads EXCEPT ![t].pc = "done",
                                        ![t].outcome = Raise("httpx.ReadError")]
          /\ client' = client
    /\ UNCHANGED <<ctor, call, prev, nSent>>

\* mutant of Receive: a failing HTTP status is retried once
Receive_RetryOnError(t, resp) ==
    /\ threads[t].pc = "head"
    /\ HeadOf(resp) = threads[t].resp
    /\ \/ threads' =
             IF ~is_success(resp) /\ threads[t].trips < 2
             THEN [threads EXCEPT ![t].pc = "sent", ![t].resp = NoResponse,
                                  ![t].trips = threads[t].trips + 1]
             ELSE [threads EXCEPT ![t].pc = "done", ![t].resp = resp,
                                  ![t].outcome = HandleResponse(resp)]
       \/ /\ client.closed
          /\ threads' = [threads EXCEPT ![t].pc = "done",
                                        ![t].outcome = Raise("httpx.ReadError")]
    /\ UNCHANGED <<ctor, client, call, prev, nSent>>

\* The body of the response resp to the request of thread t, whose head has
\* arrived, is complete: self._client.request returns resp, and the call
\* ends as HandleResponse says (client.py:186-217).  On a client that was
\* closed meanwhile either this happens, or the body does not arrive and
\* the call raises httpx.ReadError.
Receive(t, resp) ==
    /\ threads[t].pc = "head"
    /\ HeadOf(resp) = threads[t].resp
    /\ \/ threads' = [threads EXCEPT ![t].pc = "done", ![t].resp = resp,
                                     ![t].outcome = HandleResponse(resp)]
       \/ /\ client.closed
          /\ threads' = [threads EXCEPT ![t].pc = "done",
                                        ![t].outcome = Raise("httpx.ReadError")]
    /\ UNCHANGED <<ctor, client, call, prev, nSent>>

----------------------------------------------------------------------------
(* Inputs: constructor arguments *)

\* the headers= argument: None, or a mapping with any of an Authorization
\* header (Bearer or Basic), an accessKey header and an Accept header as
\* the SDK spells them, or with one or all three of them in lower case, or
\* with one of them in mixed case
HeaderArgs ==
    {PyNone}
    \cup {PyDict(a \o k \o c) :
            a \in {<<>>} \cup {<<Item("Authorization", PyStr(<<scheme, "hdr-token">>))>> :
                                   scheme \in {"Bearer ", "Basic "}},
            k \in {<<>>, <<Item("accessKey", S("HK"))>>},
            c \in {<<>>, <<Item("Accept", S("text/plain"))>>}}
    \cup {PyDict(<<Item("authorization", PyStr(<<scheme, "hdr-token">>))>>) :
            scheme \in {"Bearer ", "Basic "}}
    \cup {PyDict(<<Item("accesskey", S("HK"))>>), PyDict(<<Item("accept", S("text/plain"))>>),
          PyDict(<<Item("authorization", PyStr(<<"Basic ", "hdr-token">>)),
                   Item("accesskey", S("HK")), Item("accept", S("text/plain"))>>),
          PyDict(<<Item("AuthoriZation", PyStr(<<"Bearer ", "hdr-token">>))>>),
          PyDict(<<Item("Accesskey", S("HK"))>>)}

BaseUrl == <<"https://api2.wfirma.pl", "/">>

CtorArgs ==
    \* an optional str argument: None, the empty str, or a value
    LET Opt(value) == {PyNone, PyStr(<<>>), S(value)}
    IN
    [base_url : {BaseUrl}, company_id : Opt("321"), access_key : Opt("AK"),
     secret_key : Opt("SK"), app_key : Opt("APP"), oauth2_token : Opt("bearer-token"),
     headers : HeaderArgs]

\* the client of the tests: a bearer token and a company
FewCtorArgs ==
    {[NoArgs EXCEPT !.base_url = BaseUrl, !.company_id = S("321"),
                    !.oauth2_token = S("bearer-token")]}

----------------------------------------------------------------------------
(* Inputs: the arguments of _request *)

ParamArgs ==
    \* params=: None, the empty mapping, one caller value for any one key, or
    \* one for each
    LET CallerItems ==
            <<Item("inputFormat", S("json")), Item("outputFormat", S("json")),
              Item("company_id", S("999")), Item("oauth_version", S("1")),
              Item("page", S("3"))>>
    IN
    {PyNone, PyDict(<<>>), PyDict(CallerItems)}
    \cup {PyDict(<<CallerItems[i]>>) : i \in 1..Len(CallerItems)}

\* method, path and body of a GET
GetShape == [method |-> "GET", path |-> <<"/invoices/get/", "777">>, data |-> PyNone]

----------------------------------------------------------------------------
(* Inputs: responses *)

Leaf(tag, chunks) == Element(tag, IF chunks = <<>> THEN PyNone ELSE PyStr(chunks), <<>>)

Node(tag, kids) == Element(tag, PyNone, kids)

\* <status> sections: with one <code>, as a leaf, with <code> repeated, with
\* a <code> that has a child, and without a <code>
StatusSections ==
    LET CodeTexts ==
            {<<>>, <<"OK">>, <<"ERROR">>, <<"NO_CONTENT">>, <<" ">>, <<"\n", "ERROR", " ">>}
    IN
    {Node("status", <<Leaf("code", c)>>) : c \in CodeTexts}
    \cup {Leaf("status", <<"ERROR">>),
          Node("status", <<Leaf("code", <<"OK">>), Leaf("code", <<"OK">>)>>),
          Node("status", <<Node("code", <<Leaf("detail", <<"ERROR">>)>>)>>),
          Node("status", <<Leaf("message", <<"hello">>)>>)}

Invoice(id) == Node("invoice", <<Leaf("id", <<id>>)>>)

DataSections ==
    {Node("invoices", <<Invoice("42")>>),
     Node("invoices", <<Invoice("42"), Invoice("43")>>)}

SeqsUpTo(set, n) == UNION {[1..m -> set] : m \in 0..n}

\* response documents: a root <api> or <response> over up to MaxSections
\* sections, and roots without children
Documents ==
    {Node(tag, kids) : tag \in {"api", "response"}, kids \in SeqsUpTo(StatusSections \cup DataSections, MaxSections)}
    \cup {Leaf(tag, text) : tag \in {"api", "response", "status"},
                            text \in {<<"hello">>, <<" ">>}}

OkDocument == Node("api", <<Node("status", <<Leaf("code", <<"OK">>)>>)>>)

\* the bodies a server can send: nothing, whitespace of every kind, a
\* document (bare, or with the declaration and whitespace around it, or on
\* lines that end in CR LF, or between a tab, a vertical tab and a form
\* feed, or with references in its text), a document cut short, two
\* documents in a row, a document with an unknown reference or a control
\* character in it, and text that is no XML (bare, or with whitespace
\* around it, or after a document)
Bodies ==
    \* a line end of two bytes, carriage return and line feed
    LET CrLf == <<Tok("text", "\r"), Tok("text", "\n")>>
    IN
    {<<>>, Space, Space \o Space, <<Tok("text", "oops")>>,
     Space \o <<Tok("text", "oops")>> \o Space, <<Tok("open", "api")>> \o Space,
     <<Tok("text", "\t")>>, CrLf \o <<Tok("text", VT)>>,
     Decl \o CrLf \o SerializeElement(OkDocument) \o CrLf,
     Decl \o <<Tok("text", "\t")>> \o SerializeElement(OkDocument),
     <<Tok("text", FF)>> \o SerializeElement(OkDocument) \o <<Tok("text", VT)>>,
     Decl \o <<Tok("text", FF)>> \o SerializeElement(OkDocument),
     SerializeElement(Node("api", <<Node("status",
         <<Leaf("code", <<"\r", "\n", "ERROR", "\t">>)>>)>>)),
     SerializeElement(Node("api", <<Node("status", <<Leaf("code", <<"\r">>)>>)>>)),
     SerializeElement(Node("api", <<Node("status",
         <<Leaf("code", <<"ERROR">>), Leaf("message", <<"a", "&", "b", "<", "c">>)>>)>>)),
     <<Tok("open", "a"), Tok("ref", "foo"), Tok("close", "a")>>,
     <<Tok("open", "a"), Tok("text", ""), Tok("close", "a")>>,
     <<Tok("text", "=")>>, SerializeElement(OkDocument) \o <<Tok("text", "x(")>>}
    \cup {SerializeElement(d) : d \in Documents}
    \cup {Space \o Decl \o Space \o SerializeElement(d) \o Space : d \in Documents}
    \cup {SubSeq(SerializeElement(d), 1, Len(SerializeElement(d)) - 1) : d \in Documents}
    \cup {SerializeElement(d) \o SerializeElement(d) : d \in DataSections}

HttpStatuses == {200, 299, 300, 500}

Responses == [status_code : HttpStatuses, content : Bodies, cookies : {PyDict(<<>>)}]

\* a success with a body
OkResponse ==
    [status_code |-> 200, content |-> SerializeElement(OkDocument),
     cookies |-> PyDict(<<>>)]

\* the success, and a failure without a body
FewResponses ==
    {OkResponse, [status_code |-> 500, content |-> <<>>, cookies |-> PyDict(<<>>)]}

\* a response that sets a cookie: Set-Cookie: sid=1; Path=/
CookieResponses ==
    {[status_code |-> 200, content |-> <<>>,
      cookies |-> PyDict(<<Item("sid", S("1"))>>)]}

TreeResponses ==
    \* children of one parent: two tags, the first of them with two texts and
    \* once with a child of its own
    LET TreeKids ==
            {Leaf("a", <<"1">>), Leaf("a", <<" ", "2">>), Leaf("b", <<"1">>),
             Node("a", <<Leaf("c", <<"x">>)>>)}
    IN
    \* a parent with up to MaxKids children, as the root <response> and as the
    \* only section <rows> of an <api> envelope
    LET TreeDocuments ==
            {Node("response", kids) : kids \in SeqsUpTo(TreeKids, MaxKids)}
            \cup {Node("api", <<Node("rows", kids)>>) : kids \in SeqsUpTo(TreeKids, MaxKids)}
    IN
    [status_code : {200, 500}, content : {SerializeElement(d) : d \in TreeDocuments},
     cookies : {PyDict(<<>>)}]

----------------------------------------------------------------------------
(* Inputs: the calls of the resource methods *)

Call(name, kwargs) == [name |-> name, kwargs |-> PyDict(kwargs)]

\* sequences of items in which no key occurs twice
DistinctKeys(items) == \A i, j \in 1..Len(items) : items[i].k = items[j].k => i = j

\* flat field mappings: a str, a str with whitespace around it, a str with
\* the characters of markup in it, a str of three lines that end in CR LF
\* and in CR, a str with a control character, an int, the empty str and
\* None as values; and as keys, next to names, a name with a prefix that
\* nothing declares, one with the prefix xml, two words, and the empty str
FieldItems ==
    {Item("name", S("ACME")), Item("name", PyStr(<<" ", "ACME", "\n">>)),
     Item("name", PyStr(<<"A", "&", "B", "<", "C", ">">>)),
     Item("nip", PyInt(5213)), Item("note", PyStr(<<>>)),
     Item("note", PyStr(<<"a", "\r", "\n", "b", "\r", "c">>)),
     Item("note", PyStr(<<"a", VT, "b">>)), Item("zip", PyNone),
     Item("a:b", S("x")), Item("xml:lang", S("pl")), Item("first name", S("x")),
     Item("", S("x"))}

FieldMaps ==
    {PyDict(items) : items \in {f \in SeqsUpTo(FieldItems, MaxFields) : DistinctKeys(f)}}

ParameterMaps ==
    \* the keyword parameters of the action calls, in every order
    LET ParameterItems ==
            {Item("page", S("all")), Item("duplicate", PyInt(0)), Item("leaflet", PyInt(0))}
    IN
    {items \in SeqsUpTo(ParameterItems, 3) : DistinctKeys(items)}

\* a pre-built body, as bytes and as str, and the empty str
RawBytes ==
    PyBytes(SerializeElement(
        Node("api", <<Node("invoices", <<Node("parameters", <<Leaf("limit", <<"5">>)>>)>>)>>)))

RawStr ==
    PyStr(<<"<", "api", ">", "<", "invoices", ">", "<", "parameters", ">",
            "<", "limit", ">", "5", "<", "/limit", ">", "<", "/parameters", ">",
            "<", "/invoices", ">", "<", "/api", ">">>)

\* an argument that may be left out, from a set of values
Maybe(key, values) == {<<>>} \cup {<<Item(key, x)>> : x \in values}

\* the keywords under which the SDK takes a pre-built body
RawKeys == {"parameters_xml", "invoice_xml_body"}

\* a pre-built body given under either keyword, to the methods that encode
\* their body themselves
RawGiven == {<<Item(k, RawStr)>> : k \in RawKeys}

ResourceCalls ==
    LET ContractorsCalls ==
            {Call("contractors.add", <<Item("contractor_fields", f)>>) : f \in FieldMaps}
            \cup {Call("contractors.add", <<Item("contractor_fields", PyDict(<<>>))>> \o raw) :
                raw \in RawGiven}
            \cup {Call("contractors.get", <<Item("contractor_id", id)>>) : id \in {PyInt(7), S("7")}}
            \cup {Call("contractors.edit", <<Item("contractor_id", PyInt(7)), Item("fields", f)>>) :
                f \in FieldMaps}
            \cup {Call("contractors.edit",
                       <<Item("contractor_id", PyInt(7)), Item("fields", PyDict(<<>>))>> \o raw) :
                raw \in RawGiven}
            \cup {Call("contractors.find", raw \o page \o limit \o fields) :
                raw \in Maybe("parameters_xml", {PyNone, RawBytes, RawStr, PyStr(<<>>)}),
                page \in Maybe("page", {PyInt(0), PyInt(2)}),
                limit \in Maybe("limit", {PyInt(0)}),
                fields \in Maybe("fields", {PyList(<<>>), PyList(<<S("id"), S("name")>>),
                                            PyList(<<S("id"), PyInt(1)>>)})}
    IN
    LET InvoicesCalls ==
            {Call("invoices.get", <<Item("invoice_id", id)>>) : id \in {PyInt(777), S("777")}}
            \cup {Call("invoices.add", raw \o fields) :
                raw \in Maybe("invoice_xml_body", {PyNone, RawBytes, RawStr, PyStr(<<>>)}),
                fields \in Maybe("invoice_fields", {PyNone} \cup FieldMaps)}
            \cup {Call("invoices.download", <<Item("invoice_id", PyInt(123))>> \o parameters) :
                parameters \in ParameterMaps \cup RawGiven}
            \cup {Call("invoices.send", <<Item("invoice_id", PyInt(123))>> \o parameters) :
                parameters \in {<<>>, <<Item("email", S("a@b.pl")), Item("page", S("invoice"))>>,
                                <<Item("self", S("y"))>>}
                               \cup RawGiven}
            \cup {Call("invoices.find", raw) :
                raw \in Maybe("parameters_xml", {RawBytes, RawStr, PyStr(<<>>)})}
    IN
    LET CompanyAccountsCalls ==
            {Call("company_accounts.find", <<>>)}
            \cup {Call("company_accounts.get", <<Item("account_id", id)>>) : id \in {PyInt(1), S("1")}}
    IN
    ContractorsCalls \cup InvoicesCalls \cup CompanyAccountsCalls

----------------------------------------------------------------------------
(* Specifications *)

\* Spec: every constructor call and every caller params, on a GET that the
\* server answers with the success
ConstructAny == \E a \in CtorArgs : Construct(a)

RequestAny ==
    \E params \in ParamArgs :
        _request(GetShape.method, GetShape.path, params, GetShape.data)

RespondHeadOk == RespondHead(OkResponse)

RespondOk == Respond(OkResponse)

Next == ConstructAny \/ RequestAny \/ RespondHeadOk \/ RespondOk

Spec == Init /\ [][Next]_vars

\* SpecDecode: the client of the tests, a GET without caller params,
\* and every response, one that sets a cookie included; to a repeated call
\* the server answers the same body under another HTTP status; the client
\* may be closed between the calls
ConstructFew == \E a \in FewCtorArgs : Construct(a)

Answers ==
    IF nSent <= 1 THEN Responses \cup CookieResponses
    ELSE {[prev.resp EXCEPT !.status_code = sc] :
             sc \in HttpStatuses \ {prev.resp.status_code}}

RequestDecode == _request(GetShape.method, GetShape.path, PyNone, GetShape.data)

RespondHeadDecode == \E resp \in Answers : RespondHead(resp)

RespondDecode == \E resp \in Answers : Respond(resp)

NextDecode ==
    ConstructFew \/ RequestDecode \/ RespondHeadDecode \/ RespondDecode \/ close

SpecDecode == Init /\ [][NextDecode]_vars

\* SpecTree: the client of the tests, one GET, and responses whose document
\* holds one parent with up to MaxKids children
RequestTree ==
    /\ nSent = 0
    /\ _request(GetShape.method, GetShape.path, PyNone, GetShape.data)

RespondHeadTree == \E resp \in TreeResponses : RespondHead(resp)

RespondTree == \E resp \in TreeResponses : Respond(resp)

NextTree == ConstructFew \/ RequestTree \/ RespondHeadTree \/ RespondTree

SpecTree == Init /\ [][NextTree]_vars

\* SpecResources: the client of the tests and one thread, which calls any
\* resource method, on the open client or after close(), and gets one of
\* the few responses
InvokeResource == \E op \in ResourceCalls : Invoke("t1", op)

ReceiveHeadResource == \E resp \in FewResponses : ReceiveHead("t1", resp)

ReceiveResource == \E resp \in FewResponses : Receive("t1", resp)

NextResources ==
    ConstructFew \/ InvokeResource \/ ReceiveHeadResource \/ ReceiveResource \/ close

SpecResources == Init /\ [][NextResources]_vars

\* SpecThreads: the client of the tests and two threads, each of which
\* calls _request once with params of its own; the calls interleave at the
\* transport, a response may set a cookie, and the client may be closed,
\* directly or at the end of a with block, at any moment
RequestCalls ==
    {Call("_request", <<Item("method", S(GetShape.method)),
                        Item("path", PyStr(GetShape.path))>> \o params) :
        params \in Maybe("params", ParamArgs)}

InvokeRequest == \E t \in Threads, op \in RequestCalls : Invoke(t, op)

ReceiveHeadAny ==
    \E t \in Threads, resp \in FewResponses \cup CookieResponses : ReceiveHead(t, resp)

ReceiveAny ==
    \E t \in Threads, resp \in FewResponses \cup CookieResponses : Receive(t, resp)

NextThreads ==
    \/ ConstructFew \/ InvokeRequest \/ ReceiveHeadAny \/ ReceiveAny
    \/ close \/ __enter__ \/ __exit__

SpecThreads == Init /\ [][NextThreads]_vars

----------------------------------------------------------------------------
(* Properties *)

\* the last _request call handed its request to the transport
Sent == call.pc \in {"sent", "head", "done"} /\ call.req # NoRequest

\* ... and the transport has answered it, head and body
Answered ==
    /\ call.pc = "done" /\ call.req # NoRequest
    /\ call.outcome # Raise("httpx.ReadError")

\* the value of the header k of a request, None when it carries none
HeadersGetOrNone(h, k) == IF HeadersContains(h, k) THEN HeadersGet(h, k) ELSE PyNone

\* the constructor was called with a non-empty oauth2_token
BearerArgs == ctor.called /\ Truthy(ctor.args.oauth2_token)

\* ... with no (or an empty) oauth2_token and all three keys non-empty
KeyTripleArgs ==
    /\ ctor.called
    /\ ~Truthy(ctor.args.oauth2_token)
    /\ Truthy(ctor.args.access_key)
    /\ Truthy(ctor.args.secret_key)
    /\ Truthy(ctor.args.app_key)

KeyHeaders == {"accessKey", "secretKey", "appKey"}

BearerOf(token) == PyStr(<<"Bearer ">> \o token.v)

\* C1: in bearer mode (a non-empty oauth2_token), the query parameters of
\* every request handed to the transport hold oauth_version = "2".
C1_BearerSendsOauthVersion ==
    (BearerArgs /\ Sent) => DictGet(call.req.params, "oauth_version") = S("2")

\* C2: with a non-empty oauth2_token every request carries
\* Authorization: Bearer <token> and none of the accessKey, secretKey and
\* appKey headers, also when a complete key triple was given too.
C2_BearerHeaderNoKeyHeaders ==
    (BearerArgs /\ Sent) =>
        /\ HeadersGetOrNone(call.req.headers, "Authorization") =
              BearerOf(ctor.args.oauth2_token)
        /\ \A h \in KeyHeaders : ~HeadersContains(call.req.headers, h)

\* C3: in key-triple mode every request carries the accessKey, secretKey and
\* appKey headers with the configured values, no Authorization header and no
\* oauth_version query parameter, whatever headers the constructor was given.
\* (The oauth_version meant is the one the client adds: a call whose caller
\* params name oauth_version themselves is left out.)
C3_KeyTripleHeadersOnly ==
    (KeyTripleArgs /\ Sent /\ ~Has(call.params, "oauth_version")) =>
        /\ HeadersGetOrNone(call.req.headers, "accessKey") = ctor.args.access_key
        /\ HeadersGetOrNone(call.req.headers, "secretKey") = ctor.args.secret_key
        /\ HeadersGetOrNone(call.req.headers, "appKey") = ctor.args.app_key
        /\ ~HeadersContains(call.req.headers, "Authorization")
        /\ ~Has(call.req.params, "oauth_version")

\* C4: the caller's params are merged over the fixed parameters and remove
\* none of them, a caller's company_id or oauth_version replaces the fixed
\* value, and inputFormat and outputFormat are "xml" whatever the caller gave.
C4_FormatFlagsForced ==
    Sent =>
        /\ Keys(BuildQuery(client, PyNone)) \subseteq Keys(call.req.params)
        /\ \A k \in {"company_id", "oauth_version"} :
              Has(call.params, k) => Get(call.req.params, k) = Get(call.params, k)
        /\ DictGet(call.req.params, "inputFormat") = S("xml")
        /\ DictGet(call.req.params, "outputFormat") = S("xml")

\* C5: a request made without caller params has inputFormat = xml and
\* outputFormat = xml, and has company_id, equal to the configured one,
\* exactly when a non-empty company_id is configured.
C5_FixedParams ==
    (Sent /\ ~Truthy(call.params)) =>
        /\ DictGet(call.req.params, "inputFormat") = S("xml")
        /\ DictGet(call.req.params, "outputFormat") = S("xml")
        /\ Has(call.req.params, "company_id") <=> Truthy(ctor.args.company_id)
        /\ Truthy(ctor.args.company_id) =>
              Get(call.req.params, "company_id") = ctor.args.company_id

\* a request without caller params of a client with a company
C5_Witness ==
    /\ Sent
    /\ call.params = PyNone
    /\ ctor.args.company_id = S("321")
    /\ DictGet(call.req.params, "company_id") = S("321")
    /\ DictGet(call.req.params, "inputFormat") = S("xml")

\* C6: a constructor call with no (or an empty) oauth2_token and without all
\* three keys non-empty raises WFirmaAuthError: no httpx client was created,
\* no resource attached, the caller holds no client and no request is sent.
C6_NoModeFailsAtConstruction ==
    (ctor.called /\ ~BearerArgs /\ ~KeyTripleArgs) =>
        /\ ctor.exc = "WFirmaAuthError"
        /\ ~ctor.self.has_client
        /\ ctor.self.resources = {}
        /\ client = NoClient
        /\ nSent = 0

\* a partial triple (no app_key) and no token: the constructor raised
C6_Witness ==
    /\ ctor.called
    /\ ~Truthy(ctor.args.oauth2_token)
    /\ Truthy(ctor.args.access_key) /\ Truthy(ctor.args.secret_key)
    /\ ~Truthy(ctor.args.app_key)
    /\ ctor.exc = "WFirmaAuthError"
    /\ client = NoClient

----------------------------------------------------------------------------
(* Properties of the response handling, under SpecDecode *)

\* the trimmed body of the last response, its parse and its decoding
Content == BytesStrip(call.resp.content)

Parsed == fromstring(Content)

Decoded == Decode(Parsed.root[1])

\* status.code of a decoded mapping, None when there is none
StatusCodeOf(d) ==
    IF isinstance(d, "dict") /\ isinstance(DictGet(d, "status"), "dict")
    THEN DictGet(DictGet(d, "status"), "code")
    ELSE PyNone

\* the last response decodes to a mapping whose status.code is a non-empty
\* str other than "OK" and "NO_CONTENT"
FailingCode ==
    /\ Answered /\ Content # <<>> /\ Parsed.ok
    /\ LET c == StatusCodeOf(Decoded)
       IN  isinstance(c, "str") /\ c.v # <<>> /\ c \notin {S("OK"), S("NO_CONTENT")}

\* whether the chunks of part occur consecutively in s
Contains(s, part) ==
    \E i \in 0..(Len(s) - Len(part)) : SubSeq(s, i + 1, i + Len(part)) = part

\* C7: a response whose decoded status.code is a non-empty str other than
\* "OK" and "NO_CONTENT" raises WFirmaAPIError under every HTTP status; the
\* error carries the HTTP status code, a message containing the code, and the
\* decoded mapping as payload.
C7_FailingCodeRaises ==
    FailingCode =>
        /\ call.outcome.kind = "raise"
        /\ call.outcome.exc = "WFirmaAPIError"
        /\ call.outcome.status_code = PyInt(call.resp.status_code)
        /\ Contains(call.outcome.message, StatusCodeOf(Decoded).v)
        /\ call.outcome.payload = Decoded

\* <code>ERROR</code> under HTTP 200 raised
C7_Witness ==
    /\ FailingCode
    /\ call.resp.status_code = 200
    /\ StatusCodeOf(Decoded) = S("ERROR")
    /\ call.outcome.exc = "WFirmaAPIError"
    /\ call.outcome.payload = Decoded

NoContent == PyDict(<<Item("status", PyDict(<<Item("code", S("NO_CONTENT"))>>))>>)

\* C8: a body that is empty after trimming whitespace is not parsed: under a
\* success status the call returns {status: {code: "NO_CONTENT"}}, under any
\* other it raises WFirmaAPIError with the HTTP status code and payload None,
\* the transport error and not the parse error.
C8_EmptyBody ==
    (Answered /\ Content = <<>>) =>
        IF is_success(call.resp)
        THEN call.outcome = Return(NoContent)
        ELSE call.outcome =
                 WFirmaAPIError(PyInt(call.resp.status_code), <<"HTTP error without body">>, PyNone)

\* a body of whitespace only under HTTP 500 raised the transport error
C8_Witness ==
    /\ Answered
    /\ call.resp.content # <<>> /\ Content = <<>>
    /\ call.resp.status_code = 500
    /\ call.outcome.exc = "WFirmaAPIError"
    /\ call.outcome.payload = PyNone

\* C9: every call that reached the transport returns a decoded mapping or
\* raises WFirmaAPIError, whatever the response body.
C9_MappingOrSdkError ==
    Answered =>
        \/ call.outcome.kind = "return" /\ isinstance(call.outcome.value, "dict")
        \/ call.outcome.kind = "raise" /\ call.outcome.exc = "WFirmaAPIError"

\* what an outcome is apart from the HTTP status code it stores (the
\* message of a WFirmaAPIError starts with "[", the status code, "] ")
ApartFromStatus(o) ==
    [kind |-> o.kind, exc |-> o.exc, value |-> o.value, payload |-> o.payload,
     message |-> IF o.exc = "WFirmaAPIError" THEN SubSeq(o.message, 4, Len(o.message))
                 ELSE o.message]

\* the last two calls got the same body under different HTTP statuses
SameBodyTwice ==
    /\ nSent >= 2 /\ Answered
    /\ prev.resp.content = call.resp.content
    /\ prev.resp.status_code # call.resp.status_code

\* C10, as stated: two responses with the same non-empty body and different
\* HTTP statuses end the same way, apart from the status code stored on the
\* error.
C10_NonEmptyBodyIgnoresStatus ==
    (SameBodyTwice /\ call.resp.content # <<>>) =>
        ApartFromStatus(prev.outcome) = ApartFromStatus(call.outcome)

\* C10, amended: two responses with the same body, non-empty after trimming
\* whitespace, and different HTTP statuses end the same way, apart from the
\* status code stored on the error.
C10_TrimmedBodyIgnoresStatus ==
    (SameBodyTwice /\ BytesStrip(call.resp.content) # <<>>) =>
        ApartFromStatus(prev.outcome) = ApartFromStatus(call.outcome)

\* the same failing document under HTTP 200 and then 500: both calls raised
\* WFirmaAPIError, each with its own status code
C10_Witness ==
    /\ SameBodyTwice /\ FailingCode
    /\ prev.resp.status_code = 200 /\ call.resp.status_code = 500
    /\ prev.outcome.exc = "WFirmaAPIError" /\ prev.outcome.status_code = PyInt(200)
    /\ call.outcome.exc = "WFirmaAPIError" /\ call.outcome.status_code = PyInt(500)

\* the last response has a body, non-empty after trimming, that is not
\* well-formed XML
Malformed == Answered /\ Content # <<>> /\ ~Parsed.ok

\* C11: a non-empty body that is not well-formed XML raises WFirmaAPIError
\* with the HTTP status code of the response and, as payload, the bytes of
\* the body as the transport delivered them.
C11_ParseErrorCarriesRawBytes ==
    Malformed =>
        /\ call.outcome.kind = "raise"
        /\ call.outcome.exc = "WFirmaAPIError"
        /\ call.outcome.status_code = PyInt(call.resp.status_code)
        /\ call.outcome.payload = PyBytes(call.resp.content)

\* the last response decodes to a mapping that names no failure: its
\* status.code is "OK" or "NO_CONTENT", or it has no status entry, or its
\* status is a mapping without a code
PassingStatus ==
    /\ Answered /\ Content # <<>> /\ Parsed.ok
    /\ isinstance(Decoded, "dict")
    /\ \/ StatusCodeOf(Decoded) \in {S("OK"), S("NO_CONTENT")}
       \/ ~Has(Decoded, "status")
       \/ /\ isinstance(DictGet(Decoded, "status"), "dict")
          /\ ~Has(DictGet(Decoded, "status"), "code")

\* C12: when the decoded status.code is "OK" or "NO_CONTENT", when the
\* decoded mapping has no status entry, and when its status mapping has no
\* code, the call raises nothing and returns the whole decoded mapping.
C12_PassingStatusReturnsMapping ==
    PassingStatus => call.outcome = Return(Decoded)

\* a response with data and a <status> that has a message and no code was
\* returned whole under a failing HTTP status
C12_Witness ==
    /\ PassingStatus
    /\ call.resp.status_code = 500
    /\ Has(Decoded, "invoices")
    /\ isinstance(DictGet(Decoded, "status"), "dict")
    /\ ~Has(DictGet(Decoded, "status"), "code")
    /\ call.outcome.kind = "return"
    /\ call.outcome.value = Decoded

----------------------------------------------------------------------------
(* Properties of the recursive decoding, under SpecTree *)

\* the parent element of the last response, and what the call returned for it
TreeParent ==
    LET root == Parsed.root[1]
    IN  IF root.tag = "api" THEN root.kids[1] ELSE root

TreeDecoded ==
    IF Parsed.root[1].tag = "api"
    THEN DictGet(call.outcome.value, "rows")
    ELSE call.outcome.value

\* the children of kids that have the tag, in document order
Occurrences(kids, tag) == SelectSeq(kids, LAMBDA c : c.tag = tag)

\* C13: an element with children decodes to a mapping over the tags of its
\* children, in which a tag that occurs N > 1 times, adjacent or not, maps to
\* the sequence of the N decoded children in document order, and a tag that
\* occurs once maps to the decoded child itself.
C13_RepeatedTagsBecomeSequences ==
    (Answered /\ Parsed.ok /\ TreeParent.kids # <<>>) =>
        /\ call.outcome.kind = "return"
        /\ isinstance(TreeDecoded, "dict")
        /\ Keys(TreeDecoded) = {TreeParent.kids[i].tag : i \in 1..Len(TreeParent.kids)}
        /\ Len(TreeDecoded.v) = Cardinality(Keys(TreeDecoded))
        /\ \A tag \in Keys(TreeDecoded) :
              LET occ == Occurrences(TreeParent.kids, tag)
                  got == Get(TreeDecoded, tag)
              IN  IF Len(occ) > 1
                  THEN /\ isinstance(got, "list")
                       /\ Len(got.v) = Len(occ)
                       /\ \A j \in 1..Len(occ) : got.v[j] = _etree_to_dict(occ[j])
                  ELSE got = _etree_to_dict(occ[1])

\* <response><a>1</a><b>1</b><a> 2</a></response> was returned as
\* {"a": ["1", "2"], "b": "1"}
C13_Witness ==
    /\ Answered
    /\ call.resp.content =
           SerializeElement(Node("response", <<Leaf("a", <<"1">>), Leaf("b", <<"1">>),
                                               Leaf("a", <<" ", "2">>)>>))
    /\ call.outcome.value =
           PyDict(<<Item("a", PyList(<<S("1"), S("2")>>)), Item("b", S("1"))>>)

----------------------------------------------------------------------------
(* Properties of the resource methods, under SpecResources *)

\* thread t has handed a request to the transport
Reached(t) == threads[t].pc \in {"sent", "head", "done"} /\ threads[t].trips > 0

\* the call of thread t found the client closed: it raised RuntimeError and
\* sent nothing
Refused(t) ==
    /\ threads[t].pc = "done"
    /\ threads[t].outcome = Raise("RuntimeError")
    /\ threads[t].trips = 0

\* the field mapping from which the call of thread t built a flat record
\* body, None when it built none
FieldsOf(t) ==
    LET op == threads[t].op
    IN  CASE op.name = "contractors.add" -> DictGet(op.kwargs, "contractor_fields")
          [] op.name = "contractors.edit" -> DictGet(op.kwargs, "fields")
          [] op.name = "invoices.add" /\ DictGet(op.kwargs, "invoice_xml_body") = PyNone ->
               DictGet(op.kwargs, "invoice_fields")
          [] OTHER -> PyNone

FlatRecordSent(t) == Reached(t) /\ isinstance(FieldsOf(t), "dict")

\* the body that thread t sent is well-formed XML, and its record element
\* <api><module><record> decodes to value
RecordDecodesTo(t, value) ==
    LET parsed == fromstring(threads[t].req.data.v)
    IN  /\ parsed.ok
        /\ _etree_to_dict(parsed.root[1].kids[1].kids[1]) = value

\* C14, as stated: for every flat field mapping, the empty one and values
\* with whitespace around them included, the record element of the body
\* built by _wrap_module_body decodes to the mapping of the original keys to
\* the string forms of the original values.
C14_RoundTripExact ==
    \A t \in Threads :
        FlatRecordSent(t) =>
            RecordDecodesTo(t, PyDict([i \in 1..Len(FieldsOf(t).v) |->
                                         Item(FieldsOf(t).v[i].k, str(FieldsOf(t).v[i].val))]))

\* the lines of a text as a parser of XML reads them: a carriage return,
\* alone or with the line feed after it, is one line feed
RECURSIVE LineFeeds(_)
LineFeeds(chunks) ==
    IF chunks = <<>> THEN <<>>
    ELSE IF Head(chunks) # "\r" THEN <<Head(chunks)>> \o LineFeeds(Tail(chunks))
    ELSE IF Len(chunks) > 1 /\ chunks[2] = "\n" THEN <<"\n">> \o LineFeeds(Tail(Tail(chunks)))
    ELSE <<"\n">> \o LineFeeds(Tail(chunks))

\* k is an XML name without a colon
IsPlainName(k) == k # "" /\ Head(k) \in NameStart /\ IsNameRun(k)

\* every key of the mapping is an XML name without a colon, or such a name
\* after the prefix xml
KeysAreReadable(fields) ==
    \A i \in 1..Len(fields.v) :
        LET k == fields.v[i].k
        IN  \/ IsPlainName(k)
            \/ Len(k) > 4 /\ SubSeq(k, 1, 4) = "xml:" /\ IsPlainName(SubSeq(k, 5, Len(k)))

\* the key under which the field of key k comes back: a name with the
\* prefix xml comes back as the name in the namespace of XML
DecodedKey(k) ==
    IF Len(k) > 4 /\ SubSeq(k, 1, 4) = "xml:"
    THEN "{http://www.w3.org/XML/1998/namespace}" \o SubSeq(k, 5, Len(k))
    ELSE k

\* the string form of x holds only characters that XML allows
IsXmlText(x) == \A n \in 1..Len(str(x).v) : ~IsInvalidChar(Tok("text", str(x).v[n]))

ValuesAreXmlText(fields) == \A i \in 1..Len(fields.v) : IsXmlText(fields.v[i].val)

\* the keys that give a tag no parser reads: a prefix that nothing
\* declares, two words, no name at all
UnreadableKeys == {"a:b", "first name", ""}

\* C14, amended: when every key is an XML name without a colon, or such a
\* name after the prefix xml, and every value's string form holds only
\* characters that XML allows, the record element of the body built from a
\* non-empty flat field mapping decodes to the mapping of the original keys
\* (a key xml:lang as {http://www.w3.org/XML/1998/namespace}lang) to the
\* string forms of the original values with every line end read as one line
\* feed and the whitespace around them removed, and the record element built
\* from the empty mapping decodes to the empty string.  With a key "a:b",
\* "first name" or "", or with a value that holds a character XML does not
\* allow, the body built is not well-formed and nothing is decoded from it.
C14_RoundTripStripped ==
    \A t \in Threads :
        FlatRecordSent(t) =>
            LET fields == FieldsOf(t)
            IN  /\ (KeysAreReadable(fields) /\ ValuesAreXmlText(fields)) =>
                      RecordDecodesTo(t,
                          IF fields.v = <<>> THEN PyStr(<<>>)
                          ELSE PyDict([i \in 1..Len(fields.v) |->
                                          Item(DecodedKey(fields.v[i].k),
                                               PyStr(Strip(LineFeeds(str(fields.v[i].val).v))))]))
                /\ (\/ \E i \in 1..Len(fields.v) : fields.v[i].k \in UnreadableKeys
                    \/ ~ValuesAreXmlText(fields)) =>
                      ~fromstring(threads[t].req.data.v).ok

\* contractors.add({"name": " ACME\n", "nip": 5213}) sent a record that
\* decodes to {"name": "ACME", "nip": "5213"}
C14_Witness ==
    /\ FlatRecordSent("t1")
    /\ threads["t1"].op.name = "contractors.add"
    /\ FieldsOf("t1") =
           PyDict(<<Item("name", PyStr(<<" ", "ACME", "\n">>)), Item("nip", PyInt(5213))>>)
    /\ RecordDecodesTo("t1", PyDict(<<Item("name", S("ACME")), Item("nip", S("5213"))>>))

\* the methods that build a structured request body
BodyBuilders ==
    {"contractors.add", "contractors.edit", "contractors.find", "invoices.add",
     "invoices.download", "invoices.send"}

\* the pre-built bodies that the call of thread t was given
RawBodiesOf(t) ==
    {DictGet(threads[t].op.kwargs, k) : k \in RawKeys} \ {PyNone}

\* C15: every method that builds a structured body takes a pre-built body
\* instead: a call that is given one sends, on a client that is not closed,
\* a request whose body is exactly the given one.
C15_RawBodyIsSent ==
    \A t \in Threads :
        (/\ threads[t].pc # "idle"
         /\ threads[t].op.name \in BodyBuilders
         /\ RawBodiesOf(t) # {}
         /\ ~Refused(t)) =>
            /\ Reached(t)
            /\ threads[t].req.data \in RawBodiesOf(t)

\* the mapping that the call of thread t hands to _wrap_parameters
ParametersOf(t) ==
    LET given == VarKeywords(threads[t].op)
    IN  IF threads[t].op.name = "invoices.download" /\ given.v = <<>>
        THEN PyDict(<<Item("page", S("all"))>>)
        ELSE given

ParametersSent(t) ==
    Reached(t) /\ threads[t].op.name \in {"invoices.download", "invoices.send"}

\* the element <parameter><name>k</name><value>str(x)</value></parameter>
ParameterBlock(k, x) ==
    Node("parameter", <<Leaf("name", <<k>>), Leaf("value", str(x).v)>>)

\* C16: the body built by the parameter-list encoder is the declaration
\* and <api><invoices><parameters> with exactly one <parameter> per entry of
\* the mapping, in the order of the mapping, each holding <name> and then
\* <value> with the name and the string form of the value.
C16_OneBlockPerParameter ==
    \A t \in Threads :
        ParametersSent(t) =>
            LET body == threads[t].req.data
                parsed == fromstring(body.v)
                items == ParametersOf(t).v
            IN  /\ isinstance(body, "bytes")
                /\ Head(body.v) = Tok("decl", "xml")
                /\ parsed.ok
                /\ parsed.root[1] =
                     Node("api", <<Node("invoices",
                        <<Node("parameters",
                               [i \in 1..Len(items) |->
                                   ParameterBlock(items[i].k, items[i].val)])>>)>>)

\* invoices.download(123, page="all", duplicate=0, leaflet=0) sent three
\* <parameter> blocks in that order
C16_Witness ==
    /\ ParametersSent("t1")
    /\ threads["t1"].op =
           Call("invoices.download",
                <<Item("invoice_id", PyInt(123)), Item("page", S("all")),
                  Item("duplicate", PyInt(0)), Item("leaflet", PyInt(0))>>)
    /\ threads["t1"].req.path = <<"/invoices/download/", "123">>
    /\ fromstring(threads["t1"].req.data.v).root[1].kids[1].kids[1].kids =
           <<Node("parameter", <<Leaf("name", <<"page">>), Leaf("value", <<"all">>)>>),
             Node("parameter", <<Leaf("name", <<"duplicate">>), Leaf("value", <<"0">>)>>),
             Node("parameter", <<Leaf("name", <<"leaflet">>), Leaf("value", <<"0">>)>>)>>

\* C17: a call hands at most one request to the transport, whatever the
\* response: exactly one when it returns, and none or one when it raises.
C17_OneRoundTripPerCall ==
    \A t \in Threads :
        /\ threads[t].trips <= 1
        /\ threads[t].pc \in {"sent", "head"} => threads[t].trips = 1
        /\ (threads[t].pc = "done" /\ threads[t].outcome.kind = "return") =>
              threads[t].trips = 1
        /\ (threads[t].pc = "done" /\ threads[t].trips = 0) =>
              /\ threads[t].outcome.kind = "raise"
              /\ threads[t].resp = NoResponse

\* invoices.add(invoice_fields={...}) got HTTP 500 without body and raised
\* WFirmaAPIError after its one request
C17_Witness ==
    /\ threads["t1"].pc = "done"
    /\ threads["t1"].op.name = "invoices.add"
    /\ threads["t1"].resp.status_code = 500
    /\ threads["t1"].outcome.exc = "WFirmaAPIError"
    /\ threads["t1"].trips = 1

----------------------------------------------------------------------------
(* Properties of concurrent calls, under SpecThreads *)

\* C18: a call of _request changes nothing that calls share: after every
\* step of every call the client is as the constructor left it (but for
\* close(), which is no call and changes nothing else), the params mapping
\* of the caller is as the caller passed it, and under every interleaving
\* the query of a call is a function of the constructed client and its own
\* params, and its outcome a function of its own response.
C18_CallsShareNoMutableState ==
    /\ client.has_client => [client EXCEPT !.closed = FALSE] = ctor.self
    /\ \A t \in Threads :
          Reached(t) =>
              /\ threads[t].params = DictGet(threads[t].op.kwargs, "params")
              /\ threads[t].req.params = BuildQuery(ctor.self, threads[t].params)
              /\ threads[t].pc = "done" => threads[t].outcome = HandleResponse(threads[t].resp)
    /\ \A t, u \in Threads :
          /\ (Reached(t) /\ Reached(u) /\ threads[t].op = threads[u].op) =>
                threads[t].req.params = threads[u].req.params
          /\ (/\ threads[t].pc = "done" /\ threads[u].pc = "done"
              /\ threads[t].trips = 1 /\ threads[u].trips = 1
              /\ threads[t].resp = threads[u].resp) =>
                threads[t].outcome = threads[u].outcome

----------------------------------------------------------------------------
(* Properties of the default headers, under Spec *)

\* C19: every request that a client sends carries Accept: application/xml
\* and Content-Type: application/xml; charset=utf-8, whatever the arguments
\* of the constructor, a headers mapping included.
C19_XmlHeadersAlways ==
    Answered =>
        /\ HeadersGetOrNone(call.req.headers, "Accept") = S("application/xml")
        /\ HeadersGetOrNone(call.req.headers, "Content-Type") =
              S("application/xml; charset=utf-8")

----------------------------------------------------------------------------
(* Properties of the envelope, under SpecDecode *)

\* the root of the last response is the <api> envelope
Envelope == Answered /\ Content # <<>> /\ Parsed.ok /\ Parsed.root[1].tag = "api"

\* the mapping that the last call decoded: what it returned, or the payload
\* of the error it raised on the status
DataDict ==
    IF call.outcome.kind = "return" THEN call.outcome.value ELSE call.outcome.payload

\* the first of the children that has the tag
FirstWithTag(kids, tag) == kids[CHOOSE i \in 1..Len(kids) :
                                   /\ kids[i].tag = tag
                                   /\ \A j \in 1..(i - 1) : kids[j].tag # tag]

\* C20: under an <api> root the decoded result is a mapping whose keys are
\* the distinct tags of the children of the root, each mapped to the
\* decoding of the first child with that tag; a later child with the same
\* tag is dropped and no sequence is made of them.
C20_EnvelopeFirstWins ==
    Envelope =>
        LET kids == Parsed.root[1].kids
        IN  /\ isinstance(DataDict, "dict")
            /\ Keys(DataDict) = {kids[i].tag : i \in 1..Len(kids)}
            /\ Len(DataDict.v) = Cardinality(Keys(DataDict))
            /\ \A tag \in Keys(DataDict) :
                  Get(DataDict, tag) = _etree_to_dict(FirstWithTag(kids, tag))

\* <api> with an <invoices> of invoice 42 and then an <invoices> of invoices
\* 42 and 43 was returned as {"invoices": {"invoice": {"id": "42"}}}
C20_Witness ==
    /\ Envelope
    /\ Parsed.root[1].kids =
           <<Node("invoices", <<Invoice("42")>>),
             Node("invoices", <<Invoice("42"), Invoice("43")>>)>>
    /\ call.outcome =
           Return(PyDict(<<Item("invoices",
                    PyDict(<<Item("invoice", PyDict(<<Item("id", S("42"))>>))>>))>>))

----------------------------------------------------------------------------
(* Properties of the basic query-parameter builder, under SpecResources *)

\* thread t called contractors.find without a pre-built body and its
\* request has gone out
FindBuilt(t) ==
    /\ Reached(t)
    /\ threads[t].op.name = "contractors.find"
    /\ DictGet(threads[t].op.kwargs, "parameters_xml") = PyNone

\* the children of <parameters> in the body that thread t sent
SentParameters(t) == fromstring(threads[t].req.data.v).root[1].kids[1].kids[1].kids

\* C21: the body built by the basic query-parameter builder is
\* <api><contractors><parameters> holding, in this order, <page> exactly
\* when page is not None (page=0 included), <limit> exactly when limit is
\* not None, and <fields> with one <field> per entry in list order exactly
\* when the field list is non-empty.  (The list is one of str, as the
\* signature says: with an entry that is truthy and no str no body is built,
\* the call ends in TypeError.)
C21_PageLimitFieldsInOrder ==
    \A t \in Threads :
        FindBuilt(t) =>
            LET kw == threads[t].op.kwargs
                page == DictGet(kw, "page")
                limit == DictGet(kw, "limit")
                fields == DictGet(kw, "fields")
                parsed == fromstring(threads[t].req.data.v)
                want == (IF page # PyNone THEN <<Leaf("page", str(page).v)>> ELSE <<>>)
                        \o (IF limit # PyNone THEN <<Leaf("limit", str(limit).v)>> ELSE <<>>)
                        \o (IF fields # PyNone /\ Len(fields.v) > 0
                            THEN <<Node("fields", [i \in 1..Len(fields.v) |->
                                                      Leaf("field", fields.v[i].v)])>>
                            ELSE <<>>)
            IN  /\ parsed.ok
                /\ parsed.root[1] =
                      Node("api", <<Node("contractors", <<Node("parameters", want)>>)>>)

\* contractors.find(page=0, limit=0, fields=["id", "name"]) sent <page>0,
\* <limit>0 and <fields> with the two fields, in this order
C21_Witness ==
    /\ FindBuilt("t1")
    /\ DictGet(threads["t1"].op.kwargs, "page") = PyInt(0)
    /\ DictGet(threads["t1"].op.kwargs, "limit") = PyInt(0)
    /\ SentParameters("t1") =
          <<Leaf("page", <<"0">>), Leaf("limit", <<"0">>),
            Node("fields", <<Leaf("field", <<"id">>), Leaf("field", <<"name">>)>>)>>

----------------------------------------------------------------------------
(* Properties of the leaves of a decoded response, under SpecDecode *)

\* d is what elem decodes to, with every element without children decoded
\* to the str of its text without the whitespace around it, "" when it has
\* no text
RECURSIVE LeavesAreTrimmedText(_, _)
LeavesAreTrimmedText(elem, d) ==
    IF elem.kids = <<>>
    THEN d = PyStr(Strip(IF elem.text.t = "str" THEN elem.text.v ELSE <<>>))
    ELSE /\ isinstance(d, "dict")
         /\ Keys(d) = {elem.kids[i].tag : i \in 1..Len(elem.kids)}
         /\ \A tag \in Keys(d) :
               LET occ == Occurrences(elem.kids, tag)
                   got == Get(d, tag)
               IN  IF Len(occ) = 1 THEN LeavesAreTrimmedText(occ[1], got)
                   ELSE /\ isinstance(got, "list")
                        /\ Len(got.v) = Len(occ)
                        /\ \A j \in 1..Len(occ) : LeavesAreTrimmedText(occ[j], got.v[j])

\* the last call decoded its response to a mapping, returned or carried by
\* the status error
DecodedMapping == Answered /\ Content # <<>> /\ Parsed.ok /\ isinstance(DataDict, "dict")

\* C22: in every decoded result an element without child elements is the
\* str of its text with leading and trailing whitespace removed, the empty
\* str when it has no text; no leaf is a number or any other type.
C22_LeavesAreTrimmedStrings ==
    DecodedMapping =>
        LET root == Parsed.root[1]
        IN  IF root.tag = "api"
            THEN /\ Keys(DataDict) = {root.kids[i].tag : i \in 1..Len(root.kids)}
                 /\ \A tag \in Keys(DataDict) :
                       LeavesAreTrimmedText(FirstWithTag(root.kids, tag), Get(DataDict, tag))
            ELSE LeavesAreTrimmedText(root, DataDict)

\* <code>\nERROR </code> beside <invoice><id>42</id></invoice> decoded to
\* the strs "ERROR" and "42"
C22_Witness ==
    /\ DecodedMapping
    /\ Parsed.root[1].kids =
          <<Node("invoices", <<Invoice("42")>>),
            Node("status", <<Leaf("code", <<"\n", "ERROR", " ">>)>>)>>
    /\ DataDict =
          PyDict(<<Item("invoices", PyDict(<<Item("invoice", PyDict(<<Item("id", S("42"))>>))>>)),
                   Item("status", PyDict(<<Item("code", S("ERROR"))>>))>>)

----------------------------------------------------------------------------
(* Properties of the status check, under SpecDecode *)

\* the last response decodes to a mapping whose status entry is no mapping:
\* a sequence or a str
StatusNotMapping ==
    /\ Answered /\ Content # <<>> /\ Parsed.ok
    /\ isinstance(Decoded, "dict")
    /\ Has(Decoded, "status")
    /\ ~isinstance(Get(Decoded, "status"), "dict")

\* C23: when the status entry of the decoded mapping is a sequence or a
\* str, no code is read and the call returns the decoded mapping, also when
\* the status names a failure.
C23_StatusReadOnlyFromMapping ==
    StatusNotMapping => call.outcome = Return(Decoded)

\* <response> with two <status><code>ERROR</code></status> was returned
\* under HTTP 500, its status a sequence
C23_Witness ==
    /\ StatusNotMapping
    /\ call.resp.status_code = 500
    /\ Get(Decoded, "status") =
          PyList(<<PyDict(<<Item("code", S("ERROR"))>>), PyDict(<<Item("code", S("ERROR"))>>)>>)
    /\ call.outcome.kind = "return"

----------------------------------------------------------------------------
(* Properties of the raw body arguments, under SpecResources *)

\* the pre-built body given to the call of thread t through the parameter
\* that its method has for one, None when there is none
RawArgument(t) ==
    LET op == threads[t].op
    IN  CASE op.name = "invoices.add" -> DictGet(op.kwargs, "invoice_xml_body")
          [] op.name \in {"contractors.find", "invoices.find"} ->
               DictGet(op.kwargs, "parameters_xml")
          [] OTHER -> PyNone

\* the path of the methods that take a pre-built body
RawPath(name) ==
    CASE name = "invoices.add" -> <<"/invoices/add">>
      [] name = "contractors.find" -> <<"/contractors/find">>
      [] name = "invoices.find" -> <<"/invoices/find">>

RawSupplied(t) ==
    /\ threads[t].pc # "idle"
    /\ Binds(threads[t].op)
    /\ RawArgument(t) # PyNone

\* C24: a call of invoices.add, contractors.find or invoices.find that is
\* given a pre-built body sends, on a client that is not closed, a POST to
\* the path of the method with exactly that body; invoice_fields, page,
\* limit and fields given beside it change nothing of the request.
C24_RawBodySentUnchanged ==
    \A t \in Threads :
        (RawSupplied(t) /\ ~Refused(t)) =>
            /\ Reached(t)
            /\ threads[t].req.data = RawArgument(t)
            /\ threads[t].req =
                  BuildRequest(ctor.self, "POST", RawPath(threads[t].op.name), PyNone,
                               RawArgument(t))

\* invoices.add(invoice_xml_body=<bytes>, invoice_fields={"nip": 5213})
\* sent the bytes
C24_Witness ==
    /\ RawSupplied("t1")
    /\ threads["t1"].op.name = "invoices.add"
    /\ DictGet(threads["t1"].op.kwargs, "invoice_fields") = PyDict(<<Item("nip", PyInt(5213))>>)
    /\ RawArgument("t1") = RawBytes
    /\ threads["t1"].req.data = RawBytes

----------------------------------------------------------------------------
(* Properties of the oauth_version parameter, under Spec *)

\* the headers argument of the constructor holds an Authorization value
\* that starts with "Bearer ", however the name of the header is spelled
BearerInHeadersArg ==
    \E i \in 1..Len(ctor.args.headers.v) :
        /\ lower(ctor.args.headers.v[i].k) = "authorization"
        /\ startswith(ctor.args.headers.v[i].val.v, <<"Bearer ">>)

\* C25: _request adds oauth_version=2 to the query exactly when the headers
\* argument of the constructor holds an Authorization value that starts with
\* "Bearer ", whichever auth mode oauth2_token and the key triple select.
\* (A call whose caller params name oauth_version themselves is left out:
\* there the caller's value is the one sent.)
C25_OauthVersionFollowsHeadersArg ==
    (Sent /\ ~Has(call.params, "oauth_version")) =>
        /\ Has(call.req.params, "oauth_version") <=> BearerInHeadersArg
        /\ Has(call.req.params, "oauth_version") =>
              Get(call.req.params, "oauth_version") = S("2")

\* a client in key-triple mode that was given Authorization: Bearer in its
\* headers sent oauth_version=2
C25_Witness ==
    /\ Sent /\ KeyTripleArgs /\ BearerInHeadersArg
    /\ ~Has(call.params, "oauth_version")
    /\ DictGet(call.req.params, "oauth_version") = S("2")
    /\ HeadersContains(call.req.headers, "accessKey")

----------------------------------------------------------------------------
(* Properties of the returned value, under SpecDecode *)

\* C26: whenever _request returns normally the returned value is a mapping,
\* never a str or a sequence, for every response body and HTTP status.
C26_ReturnsMapping ==
    (Answered /\ call.outcome.kind = "return") => isinstance(call.outcome.value, "dict")

\* <api>hello</api>, a root with text and no child, was returned as the
\* empty mapping
C26_Witness ==
    /\ Answered /\ Content # <<>> /\ Parsed.ok
    /\ Parsed.root[1] = Leaf("api", <<"hello">>)
    /\ call.outcome = Return(PyDict(<<>>))

----------------------------------------------------------------------------
(* Properties of a status code that is no plain str, under SpecDecode *)

\* the last response decodes to a mapping whose status is a mapping with a
\* code that is a sequence (<code> repeated) or a mapping (<code> with
\* child elements)
CodeNotStr ==
    /\ Answered /\ Content # <<>> /\ Parsed.ok
    /\ isinstance(Decoded, "dict")
    /\ isinstance(DictGet(Decoded, "status"), "dict")
    /\ \/ isinstance(StatusCodeOf(Decoded), "list")
       \/ isinstance(StatusCodeOf(Decoded), "dict")

\* C27: when the code of the status mapping is a sequence (<code> repeated)
\* or a mapping (<code> with child elements), _request raises WFirmaAPIError
\* with the HTTP status code and the decoded mapping as payload, also when
\* every repeated <code> holds "OK".
C27_CodeNotStrRaises ==
    CodeNotStr =>
        call.outcome =
            WFirmaAPIError(PyInt(call.resp.status_code),
                           <<"API status != OK: ">> \o Format(StatusCodeOf(Decoded)),
                           Decoded)

\* <status><code>OK</code><code>OK</code></status> under HTTP 200 raised
\* WFirmaAPIError
C27_Witness ==
    /\ CodeNotStr
    /\ call.resp.status_code = 200
    /\ StatusCodeOf(Decoded) = PyList(<<S("OK"), S("OK")>>)
    /\ call.outcome.kind = "raise"
    /\ call.outcome.exc = "WFirmaAPIError"

----------------------------------------------------------------------------
(* Properties of an empty status code, under SpecDecode *)

\* the <status> elements of the parsed document that have one child, a
\* <code> without children whose text is absent or only whitespace
BlankCodeStatuses ==
    LET root == Parsed.root[1]
    IN  {i \in 1..Len(root.kids) :
            LET st == root.kids[i]
            IN  /\ st.tag = "status"
                /\ Len(st.kids) = 1
                /\ st.kids[1].tag = "code"
                /\ st.kids[1].kids = <<>>
                /\ \/ st.kids[1].text = PyNone
                   \/ \A j \in 1..Len(st.kids[1].text.v) :
                         st.kids[1].text.v[j] \in StrWhitespace}

\* the only <status> of the last response is one with a blank <code>
BlankCode ==
    /\ Answered /\ Content # <<>> /\ Parsed.ok
    /\ BlankCodeStatuses # {}
    /\ Len(Occurrences(Parsed.root[1].kids, "status")) = 1

\* C28: a status block whose <code> is empty or holds only whitespace is a
\* success: _request returns the decoded mapping, with the code decoded to
\* the empty str, under every HTTP status.
C28_BlankCodeIsSuccess ==
    BlankCode =>
        /\ call.outcome = Return(Decoded)
        /\ StatusCodeOf(Decoded) = PyStr(<<>>)

\* <status><code> </code></status> under HTTP 500 was returned
C28_Witness ==
    /\ BlankCode
    /\ call.resp.status_code = 500
    /\ \E i \in BlankCodeStatuses : Parsed.root[1].kids[i].kids[1].text = PyStr(<<" ">>)
    /\ call.outcome.kind = "return"
    /\ Has(DictGet(call.outcome.value, "status"), "code")

----------------------------------------------------------------------------
(* Properties of invoices.add, under SpecResources *)

\* thread t called invoices.add
AddedInvoice(t) == threads[t].pc # "idle" /\ threads[t].op.name = "invoices.add"

InvoiceXmlBody(t) == DictGet(threads[t].op.kwargs, "invoice_xml_body")

InvoiceFields(t) == DictGet(threads[t].op.kwargs, "invoice_fields")

\* the body that thread t sent is the declaration and
\* <api><invoices><invoice> with one child per field, in the order of the
\* mapping, named by the key and holding the string form of the value
IsInvoiceRecordOf(t, fields) ==
    LET children == [i \in 1..Len(fields.v) |->
                        Element(fields.v[i].k, str(fields.v[i].val), <<>>)]
        invoice == Element("invoice", PyNone, children)
    IN  threads[t].req.data = tostring(Node("api", <<Node("invoices", <<invoice>>)>>))

\* C29: invoices.add with neither invoice_xml_body nor invoice_fields raises
\* ValueError and no request is sent, on an open or a closed client; on a
\* client that is not closed, with both it sends a POST to /invoices/add
\* with the raw body, and with only invoice_fields it sends a POST to
\* /invoices/add with the body <api><invoices><invoice> built from the
\* fields.
C29_InvoicesAddBranches ==
    \A t \in Threads :
        AddedInvoice(t) =>
            /\ (InvoiceXmlBody(t) = PyNone /\ InvoiceFields(t) = PyNone) =>
                  /\ threads[t].pc = "done"
                  /\ threads[t].outcome = Raise("ValueError")
                  /\ threads[t].trips = 0
                  /\ threads[t].req = NoRequest
            /\ (InvoiceXmlBody(t) # PyNone /\ InvoiceFields(t) # PyNone /\ ~Refused(t)) =>
                  /\ Reached(t) /\ threads[t].trips = 1
                  /\ threads[t].req.method = "POST"
                  /\ threads[t].req.path = <<"/invoices/add">>
                  /\ threads[t].req.data = InvoiceXmlBody(t)
            /\ (/\ InvoiceXmlBody(t) = PyNone /\ isinstance(InvoiceFields(t), "dict")
                /\ ~Refused(t)) =>
                  /\ Reached(t) /\ threads[t].trips = 1
                  /\ threads[t].req.method = "POST"
                  /\ threads[t].req.path = <<"/invoices/add">>
                  /\ IsInvoiceRecordOf(t, InvoiceFields(t))

\* invoices.add() raised ValueError with no request sent
C29_Witness ==
    /\ AddedInvoice("t1")
    /\ threads["t1"].op.kwargs = PyDict(<<>>)
    /\ threads["t1"].outcome = Raise("ValueError")
    /\ threads["t1"].trips = 0

============================================================================
